---- MODULE Spec2Model ----
(***************************************************************************)
(* A model of stk::mesh::BulkData (packages/stk/stk_mesh/stk_mesh/base/    *)
(* BulkData.cpp): the modification cycle, entity / relation declaration    *)
(* and destruction with part induction, the local-offset bookkeeping, and  *)
(* the parallel resolution of keys and owners of shared entities.          *)
(*                                                                         *)
(* Spec      : one process's mesh, none of whose entities is communicated  *)
(*             (the comm map is empty), driven by the public mutators.     *)
(* SpecKey   : the key / owner resolution of one edge or face created on   *)
(*             several processes (internal_resolve_parallel_create).       *)
(* SpecOwner : the ownership resolution of one entity held on several      *)
(*             processes (resolve_ownership_of_modified_entities,          *)
(*             move_entities_to_proper_part_ownership) and                 *)
(*             determine_new_owner on its sharing list.                    *)
(* SpecGhost : one process of a parallel run that declares entities,       *)
(*             receives ghosts (ghost_entities_and_fields) and destroys    *)
(*             them; the owner test and the reuse of a ghost's offset.     *)
(* SpecInduce: one modification cycle on three declared entities whose     *)
(*             relations and block membership change; induced parts on     *)
(*             shared and unshared entities.                               *)
(* SpecSync  : the parallel-consistent error checks of a modification end  *)
(*             on several processes, in builds with and without NDEBUG.    *)
(* SpecChild : the rounds of krino's batch_create_child_nodes              *)
(*             (packages/krino/krino/krino_lib/Akri_MeshHelpers.cpp).      *)
(* SpecChildId: the id of one shared child node request of krino           *)
(*             (ActiveChildNodeRequest) on the processes that share it.    *)
(* SpecIds   : generate_new_ids of one rank on several processes whose     *)
(*             entities are declared and destroyed over the cycles.        *)
(* SpecSide  : two elements on two processes that declare sides, and the   *)
(*             resolution of the id of the side between them.              *)
(* SpecGhosting: change_ghosting of a custom ghosting and                  *)
(*             internal_regenerate_aura on two processes.                  *)
(* SpecUnpack: the unpack loop of ghost_entities_and_fields on a process   *)
(*             that receives ghosts from several processes.                *)
(* SpecShare : add_node_sharing and modification_end_for_entity_creation   *)
(*             on two processes that create nodes in one cycle.            *)
(* SpecCommList: the entity comm list of one process under the operations  *)
(*             that add entries to it and remove entries from it.          *)
(* SpecRegistry: the ghosting registry of one process: create_ghosting,    *)
(*             destroy_ghosting and destroy_all_ghosting.                  *)
(* SpecMembership: the parts of one shared node on its holders over the    *)
(*             cycles (internal_resolve_shared_membership).                *)
(* SpecMark: the entity states of a node, a face and an element under      *)
(*             relation and part changes and a modification end.           *)
(* SpecVerify: the input check of change_ghosting on two processes.        *)
(* SpecBatch: batch_change_entity_parts and batch_add_to_ghosting inside   *)
(*             and outside a modification cycle.                           *)
(* SpecRemove: the receive-ghosts that change_ghosting removes.            *)
(* SpecChildFair: SpecChild with every process running to its end.         *)
(* SpecChildShare: batch_create_child_nodes with the ids and the node      *)
(*             sharing of requests held by several processes.              *)
(* SpecDelete: the iterations and the message of krino's                   *)
(*             delete_all_entities_using_nodes_with_nodal_volume_...       *)
(***************************************************************************)
EXTENDS Integers, Sequences, FiniteSets, TLC

\* ------------------------------------------------------------------ bounds
MaxId == 1
MaxOrdinal == 0
MaxOffset == 3
\* the parallel scenarios: processes, node ids, ids a process proposes for a new entity
NumProcs == 3
MaxNode == 3
MaxProposedId == 2
\* the ghosting and id generation scenarios: processes of the run
MaxGhostProcs == 2
\* id generation: the largest id of the rank, the ids one process asks for
MaxAllowedId == 4
MaxNewIds == 2
\* node deletion: the nodes below the threshold one process finds in an iteration
MaxSmallNodes == 2
\* side declaration: the largest element id
MaxElemId == 3
\* krino's batch_create_child_nodes: child node requests of one process
MaxRequests == 2
\* the comm list: entities one call adds to or removes from the comm list
MaxCommEntities == 2
\* the ghosting registry: names the application gives to create_ghosting
MaxCustomGhostings == 3

\* ------------------------------------------------------- program constants
NODE_RANK == 0
EDGE_RANK == 1
FACE_RANK == 2
ELEM_RANK == 3
\* MetaData::entity_rank_count() of a mesh without a constraint rank in use
entity_rank_count == 4
\* MetaData::spatial_dimension(); the side rank of a 3D mesh is FACE_RANK
spatial_dimension == 3
side_rank == IF spatial_dimension = 3 THEN FACE_RANK ELSE EDGE_RANK

\* ---------------------------------------------------------------- parts
universal_part == "universal"
locally_owned_part == "owned"
globally_shared_part == "shared"
\* one application part whose primary entity rank is ELEM_RANK (an element block)
block_part == "block"
AllParts == {universal_part, locally_owned_part, globally_shared_part, block_part}
UserParts == {block_part}

\* Part::primary_entity_rank(); unranked parts carry InvalidEntityRank (stk::topology::INVALID_RANK)
InvalidEntityRank == 255
primary_entity_rank(p) == IF p = block_part THEN ELEM_RANK ELSE InvalidEntityRank

\* ---------------------------------------------------------- entity states
Unchanged == "Unchanged"
Created == "Created"
Modified == "Modified"
Deleted == "Deleted"

SYNCHRONIZED == "SYNCHRONIZED"
MODIFIABLE == "MODIFIABLE"

\* ------------------------------------------------------------------- keys
Ranks == 0 .. (entity_rank_count - 1)
Ids == 1 .. MaxId
Keys == Ranks \X Ids
InvalidKey == <<InvalidEntityRank, 0>>
Offsets == 0 .. MaxOffset
Ordinals == 0 .. MaxOrdinal

VARIABLES
  m_sync_state,      \* MeshModification: SYNCHRONIZED or MODIFIABLE
  m_entity_repo,     \* EntityRepository: key -> local offset (0: no entry)
  m_size,            \* m_mesh_indexes.size(): offsets 0 .. m_size-1 are allocated
  m_entity_keys,     \* offset -> EntityKey
  m_mesh_indexes,    \* offset -> the part list of the entity's bucket ({}: no bucket)
  m_entity_states,   \* offset -> EntityState
  m_conn,            \* offset -> set of <<target offset, ordinal>> (all ranks)
  m_deleted_entities,                             \* free list of offsets
  m_deleted_entities_current_modification_cycle,  \* offsets freed in this cycle
  m_ghost_reuse_map, \* key -> offset of a destroyed ghost (0: no entry)
  ret,               \* the last call: [op, ent, res]; ent: the entity declared or destroyed
  kv                 \* the state of the scenarios other than Spec, a record

meshvars == <<m_sync_state, m_entity_repo, m_size, m_entity_keys, m_mesh_indexes,
              m_entity_states, m_conn, m_deleted_entities,
              m_deleted_entities_current_modification_cycle, m_ghost_reuse_map>>
vars == <<meshvars, ret, kv>>

\* ------------------------------------------------------------ sequences
PushFront(s, x) == <<x>> \o s
SeqSet(s) == {s[i] : i \in 1 .. Len(s)}

RECURSIVE SortedSeq(_)
\* the tuples of a finite set in ascending lexicographic order
TupleLess(a, b) ==
  \E i \in 1 .. Len(a) : a[i] < b[i] /\ \A j \in 1 .. (i - 1) : a[j] = b[j]
SortedSeq(S) ==
  IF S = {} THEN <<>>
  ELSE LET m == CHOOSE x \in S : \A y \in S \ {x} : TupleLess(x, y)
       IN <<m>> \o SortedSeq(S \ {m})

\* ------------------------------------------------------------ the mesh
\* The arrays the part and state helpers read and write, as one value.
Mesh == [keys |-> m_entity_keys, parts |-> m_mesh_indexes, st |-> m_entity_states,
         conn |-> m_conn]

in_synchronized_state == m_sync_state = SYNCHRONIZED

entity_rank(M, e) == M.keys[e][1]
is_valid(M, e) == e # 0 /\ M.parts[e] # {}

\* EntityKey::is_valid_id: ids are positive and no larger than the maximum id
is_valid_id(id) == id >= 1 /\ id <= MaxId

UpwardOf(M, e) == {t[1] : t \in {c \in M.conn[e] : entity_rank(M, c[1]) > entity_rank(M, e)}}
DownwardOf(M, e) == {t[1] : t \in {c \in M.conn[e] : entity_rank(M, c[1]) < entity_rank(M, e)}}

\* impl::has_upward_connectivity
has_upward_connectivity(M, e) == UpwardOf(M, e) # {}

\* impl::VisitUpwardClosureGeneral with the only-visit-Unchanged predicate
RECURSIVE VisitUpwardUnchanged(_, _)
VisitUpwardUnchanged(M, e) ==
  IF M.st[e] # Unchanged THEN {}
  ELSE {e} \cup UNION {VisitUpwardUnchanged(M, u) : u \in UpwardOf(M, e)}

\* set_state(entity, Modified) on an Unchanged entity alone
mark_entity_as_modified(M, e) ==
  [M EXCEPT !.st[e] = IF @ = Unchanged THEN Modified ELSE @]
mark_entity_and_upward_related_entities_as_modified(M, e) ==
  LET visited == VisitUpwardUnchanged(M, e)
  IN [M EXCEPT !.st = [x \in DOMAIN M.st |-> IF x \in visited THEN Modified ELSE M.st[x]]]

\* Part::should_induce
should_induce(p, rank) == primary_entity_rank(p) = rank
\* impl::are_any_parts_ranked
are_any_parts_ranked(ps) == \E p \in ps : primary_entity_rank(p) # InvalidEntityRank
\* impl::fill_inducible_parts_from_list
fill_inducible_parts_from_list(ps, rank) == {p \in ps : should_induce(p, rank)}
\* impl::get_part_ordinals_to_induce_on_lower_ranks_except_for_omits, from one bucket
get_part_ordinals_to_induce_on_lower_ranks_except_for_omits(M, from, omit) ==
  {p \in M.parts[from] : should_induce(p, entity_rank(M, from)) /\ p \notin omit}
get_part_ordinals_to_induce_on_lower_ranks(M, from) ==
  get_part_ordinals_to_induce_on_lower_ranks_except_for_omits(M, from, {})

\* impl::fill_add_parts_and_supersets: every part is a subset of the universal part
fill_add_parts_and_supersets(ps) == IF ps = {} THEN {} ELSE ps \cup {universal_part}
\* impl::fill_remove_parts_and_subsets_minus_parts_in_add_parts_list
fill_remove_parts_and_subsets_minus_parts_in_add_parts_list(rem, addSup) ==
  (IF universal_part \in rem THEN AllParts ELSE rem) \ addSup

internal_fill_new_part_list(old, add, rem) ==
  LET l == (old \ rem) \cup add
  IN IF l = {} THEN {universal_part} ELSE l

\* the parts e_to still gets from its other higher-rank entities
internal_insert_all_parts_induced_from_higher_rank_entities_to_vector(M, entity, e_to) ==
  UNION {get_part_ordinals_to_induce_on_lower_ranks(M, u) : u \in UpwardOf(M, e_to) \ {entity}}

internal_fill_parts_to_actually_remove(toRemove, stillInduced) == toRemove \ stillInduced

\* the downward relations of e in the order the propagation walks them
DownwardList(M, e) ==
  SortedSeq({<<entity_rank(M, c[1]), c[2], c[1]>> :
               c \in {d \in M.conn[e] : entity_rank(M, d[1]) < entity_rank(M, e)}})

RECURSIVE internal_change_entity_parts(_, _, _, _)
RECURSIVE internal_propagate_induced_part_changes(_, _, _, _, _)

internal_move_entity_to_new_bucket(M, e, newParts) ==
  mark_entity_and_upward_related_entities_as_modified([M EXCEPT !.parts[e] = newParts], e)

internal_change_entity_parts(M, e, add, rem) ==
  LET old == M.parts[e]
      needToChangeParts == old = {} \/ ~(add \subseteq old) \/ (rem \cap old) # {}
      parts_removed == IF are_any_parts_ranked(rem) THEN rem \cap old ELSE {}
      M1 == internal_move_entity_to_new_bucket(M, e, internal_fill_new_part_list(old, add, rem))
      erank == entity_rank(M, e)
  IN IF ~needToChangeParts THEN M
     ELSE IF are_any_parts_ranked(add) \/ parts_removed # {}
          THEN internal_propagate_induced_part_changes(
                  M1, e, DownwardList(M1, e),
                  fill_inducible_parts_from_list(add, erank),
                  fill_inducible_parts_from_list(parts_removed, erank))
          ELSE M1

internal_propagate_induced_part_changes(M, entity, list, addParts, remParts) ==
  IF list = <<>> THEN M
  ELSE LET e_to == Head(list)[3]
           stillInduced ==
             internal_insert_all_parts_induced_from_higher_rank_entities_to_vector(M, entity, e_to)
           parts_to_actually_remove ==
             IF remParts = {} THEN {}
             ELSE internal_fill_parts_to_actually_remove(remParts, stillInduced)
           M1 == IF e_to = 0 THEN M
                 ELSE internal_change_entity_parts(M, e_to, addParts, parts_to_actually_remove)
       IN internal_propagate_induced_part_changes(M1, entity, Tail(list), addParts, remParts)

\* ------------------------------------------------------------ relations
\* Bucket::declare_relation / Bucket::destroy_relation on one entity's connectivity
Bucket_declare_relation(M, e_from, e_to, ordinal) ==
  [M EXCEPT !.conn[e_from] = @ \cup {<<e_to, ordinal>>}]
Bucket_destroy_relation(M, e_from, e_to, ordinal) ==
  [M EXCEPT !.conn[e_from] = @ \ {<<e_to, ordinal>>}]

\* impl::require_valid_relation
require_valid_relation(M, e_from, e_to) ==
  /\ is_valid(M, e_from)
  /\ is_valid(M, e_to)
  /\ entity_rank(M, e_from) > entity_rank(M, e_to)

\* internal_declare_relation without the declaration of the back relation
internal_declare_relation_forward_only(M, e_from, e_to, local_id) ==
  LET is_new_relation == <<e_to, local_id>> \notin M.conn[e_from]
      M1 == Bucket_declare_relation(M, e_from, e_to, local_id)
      M4 == IF is_new_relation
            THEN mark_entity_and_upward_related_entities_as_modified(
                   mark_entity_and_upward_related_entities_as_modified(M1, e_to), e_from)
            ELSE M1
  IN internal_change_entity_parts(M4, e_to, get_part_ordinals_to_induce_on_lower_ranks(M4, e_from), {})
\* internal_declare_relation without the part induction on e_to
internal_declare_relation_without_induction(M, e_from, e_to, local_id) ==
  LET is_new_relation == <<e_to, local_id>> \notin M.conn[e_from]
      M1 == Bucket_declare_relation(M, e_from, e_to, local_id)
      M2 == IF is_new_relation THEN Bucket_declare_relation(M1, e_to, e_from, local_id) ELSE M1
  IN IF is_new_relation
     THEN mark_entity_and_upward_related_entities_as_modified(
            mark_entity_and_upward_related_entities_as_modified(M2, e_to), e_from)
     ELSE M2
internal_declare_relation(M, e_from, e_to, local_id) ==
  LET is_new_relation == <<e_to, local_id>> \notin M.conn[e_from]
      M1 == Bucket_declare_relation(M, e_from, e_to, local_id)
      M2 == IF is_new_relation THEN Bucket_declare_relation(M1, e_to, e_from, local_id) ELSE M1
      M4 == IF is_new_relation
            THEN mark_entity_and_upward_related_entities_as_modified(
                   mark_entity_and_upward_related_entities_as_modified(M2, e_to), e_from)
            ELSE M2
  IN internal_change_entity_parts(M4, e_to, get_part_ordinals_to_induce_on_lower_ranks(M4, e_from), {})

\* the relation removal of internal_destroy_relation: the part membership of a
\* shared e_to is left to the end of the modification cycle
internal_destroy_relation_of_shared(M, e_from, e_to, local_id) ==
  LET caused_change_fwd == <<e_to, local_id>> \in M.conn[e_from]
      M2 == Bucket_destroy_relation(M, e_from, e_to, local_id)
      M3 == IF caused_change_fwd THEN Bucket_destroy_relation(M2, e_to, e_from, local_id) ELSE M2
  IN IF caused_change_fwd
     THEN mark_entity_and_upward_related_entities_as_modified(
            mark_entity_and_upward_related_entities_as_modified(M3, e_to), e_from)
     ELSE M3
\* internal_destroy_relation with an empty 'keep' vector
internal_destroy_relation_without_keep(M, e_from, e_to, local_id) ==
  LET del == IF <<e_to, local_id>> \in M.conn[e_from]
             THEN get_part_ordinals_to_induce_on_lower_ranks_except_for_omits(M, e_from, {})
             ELSE {}
      M1 == IF del # {} THEN internal_change_entity_parts(M, e_to, {}, del) ELSE M
  IN internal_destroy_relation_of_shared(M1, e_from, e_to, local_id)
internal_destroy_relation(M, e_from, e_to, local_id) ==
  LET keep == UNION {get_part_ordinals_to_induce_on_lower_ranks(M, c[1]) :
                       c \in {d \in M.conn[e_to] :
                                /\ entity_rank(M, d[1]) > entity_rank(M, e_to)
                                /\ ~(d[1] = e_from /\ d[2] = local_id)}}
      del == IF <<e_to, local_id>> \in M.conn[e_from]
             THEN get_part_ordinals_to_induce_on_lower_ranks_except_for_omits(M, e_from, keep)
             ELSE {}
      M1 == IF del # {} THEN internal_change_entity_parts(M, e_to, {}, del) ELSE M
      caused_change_fwd == <<e_to, local_id>> \in M1.conn[e_from]
      M2 == Bucket_destroy_relation(M1, e_from, e_to, local_id)
      M3 == IF caused_change_fwd THEN Bucket_destroy_relation(M2, e_to, e_from, local_id) ELSE M2
  IN IF caused_change_fwd
     THEN mark_entity_and_upward_related_entities_as_modified(
            mark_entity_and_upward_related_entities_as_modified(M3, e_to), e_from)
     ELSE M3

\* the relations of e from the highest rank to the lowest, last to first
RelationsHighToLow(M, e) ==
  LET up == SortedSeq({<<entity_rank(M, c[1]), c[2], c[1]>> : c \in M.conn[e]})
  IN [i \in 1 .. Len(up) |-> up[Len(up) + 1 - i]]

RECURSIVE destroy_all_relations(_, _, _)
destroy_all_relations(M, entity, list) ==
  IF list = <<>> THEN M
  ELSE LET e_to == Head(list)[3]
           M1 == IF is_valid(M, e_to)
                 THEN internal_destroy_relation(M, entity, e_to, Head(list)[2])
                 ELSE M
       IN destroy_all_relations(M1, entity, Tail(list))

\* ------------------------------------------------------------ offsets
\* generate_new_entity taking no notice of the preferred offset
generate_new_entity_ignoring_preferred_offset(preferred_offset) ==
  LET new_local_offset == IF m_deleted_entities # <<>> THEN Head(m_deleted_entities) ELSE m_size
      slot == IF new_local_offset \in Offsets THEN new_local_offset ELSE 0
  IN [off |-> new_local_offset,
      size |-> IF new_local_offset = m_size THEN m_size + 1 ELSE m_size,
      deleted |-> IF m_deleted_entities # <<>> THEN Tail(m_deleted_entities)
                  ELSE m_deleted_entities,
      M |-> [Mesh EXCEPT !.keys[slot] = InvalidKey, !.parts[slot] = {}, !.st[slot] = Created]]
\* generate_new_entity on arrays whose first slot is an ordinary one
generate_new_entity_without_sentinel(preferred_offset) ==
  LET new_local_offset ==
        IF preferred_offset # 0 THEN preferred_offset
        ELSE IF m_deleted_entities # <<>> THEN Head(m_deleted_entities)
        ELSE m_size - 1
      slot == IF new_local_offset \in Offsets THEN new_local_offset ELSE 0
  IN [off |-> new_local_offset,
      size |-> IF new_local_offset = m_size - 1 THEN m_size + 1 ELSE m_size,
      deleted |-> IF preferred_offset = 0 /\ m_deleted_entities # <<>>
                  THEN Tail(m_deleted_entities) ELSE m_deleted_entities,
      M |-> [Mesh EXCEPT !.keys[slot] = InvalidKey, !.parts[slot] = {}, !.st[slot] = Created]]
\* generate_new_entity leaving the offset it hands out in m_deleted_entities
generate_new_entity_without_pop_front(preferred_offset) ==
  LET new_local_offset ==
        IF preferred_offset # 0 THEN preferred_offset
        ELSE IF m_deleted_entities # <<>> THEN Head(m_deleted_entities)
        ELSE m_size
      slot == IF new_local_offset \in Offsets THEN new_local_offset ELSE 0
  IN [off |-> new_local_offset,
      size |-> IF new_local_offset = m_size THEN m_size + 1 ELSE m_size,
      deleted |-> m_deleted_entities,
      M |-> [Mesh EXCEPT !.keys[slot] = InvalidKey, !.parts[slot] = {}, !.st[slot] = Created]]
\* generate_new_entity: the offset it hands out, and the arrays afterwards
generate_new_entity(preferred_offset) ==
  LET new_local_offset ==
        IF preferred_offset # 0 THEN preferred_offset
        ELSE IF m_deleted_entities # <<>> THEN Head(m_deleted_entities)
        ELSE m_size
      slot == IF new_local_offset \in Offsets THEN new_local_offset ELSE 0
  IN [off |-> new_local_offset,
      size |-> IF new_local_offset = m_size THEN m_size + 1 ELSE m_size,
      deleted |-> IF preferred_offset = 0 /\ m_deleted_entities # <<>>
                  THEN Tail(m_deleted_entities) ELSE m_deleted_entities,
      M |-> [Mesh EXCEPT !.keys[slot] = InvalidKey, !.parts[slot] = {}, !.st[slot] = Created]]

RECURSIVE PushFrontAll(_, _)
\* push_front of every element of list, first to last
PushFrontAll(s, list) ==
  IF list = <<>> THEN s ELSE PushFrontAll(PushFront(s, Head(list)), Tail(list))

update_deleted_entities_container(deleted, current, reuse) ==
  LET d1 == PushFrontAll(deleted, current)
      ghosts == SortedSeq({<<k[1], k[2], reuse[k]>> : k \in {x \in Keys : reuse[x] # 0}})
  IN PushFrontAll(d1, [i \in 1 .. Len(ghosts) |-> ghosts[i][3]])

\* MeshModification: entity states return to Unchanged when a cycle ends
reset_undeleted_entity_states_to_unchanged(st) ==
  [o \in DOMAIN st |-> IF o >= 1 /\ o < m_size /\ st[o] # Deleted THEN Unchanged ELSE st[o]]

\* impl::check_for_connected_nodes: entities above NODE_RANK without a node
check_for_connected_nodes(M) ==
  {e \in 1 .. (m_size - 1) :
     /\ is_valid(M, e)
     /\ entity_rank(M, e) > NODE_RANK
     /\ ~\E c \in M.conn[e] : entity_rank(M, c[1]) = NODE_RANK}

\* ------------------------------------------------------------ the calls
Ret(op, ent, res) == [op |-> op, ent |-> ent, res |-> res]
SetMesh(M) ==
  /\ m_entity_keys' = M.keys
  /\ m_mesh_indexes' = M.parts
  /\ m_entity_states' = M.st
  /\ m_conn' = M.conn
\* a call that ends in an exception before it has written anything
Throws(op) == ret' = Ret(op, 0, "throw") /\ UNCHANGED <<meshvars, kv>>

\* the Entity handles a caller can hold
Handles == 1 .. (m_size - 1)
\* ranks and ids a caller can pass, valid or not
RankArgs == {NODE_RANK, FACE_RANK, ELEM_RANK, entity_rank_count}
IdArgs == 0 .. MaxId
\* the parts a caller names for an entity of this rank: an element block is
\* given to elements only, lower ranks get it by induction
PartArgs(rank) == IF rank = ELEM_RANK THEN {{}, {block_part}} ELSE {{}}

require_good_rank_and_id(rank, id) ==
  /\ rank < entity_rank_count /\ ~(rank = FACE_RANK /\ spatial_dimension = 2)
  /\ is_valid_id(id)

Init ==
  /\ m_sync_state = SYNCHRONIZED
  /\ m_entity_repo = [k \in Keys |-> 0]
  /\ m_size = 1
  /\ m_entity_keys = [o \in Offsets |-> InvalidKey]
  /\ m_mesh_indexes = [o \in Offsets |-> {}]
  /\ m_entity_states = [o \in Offsets |-> Created]
  /\ m_conn = [o \in Offsets |-> {}]
  /\ m_deleted_entities = <<>>
  /\ m_deleted_entities_current_modification_cycle = <<>>
  /\ m_ghost_reuse_map = [k \in Keys |-> 0]
  /\ ret = Ret("construct", 0, "void")
  /\ kv = <<>>

\* MeshModification::modification_begin
modification_begin ==
  /\ m_sync_state' = MODIFIABLE
  /\ ret' = Ret("modification_begin", 0, IF in_synchronized_state THEN "true" ELSE "false")
  /\ UNCHANGED <<m_entity_repo, m_size, m_entity_keys, m_mesh_indexes, m_entity_states, m_conn,
                 m_deleted_entities, m_deleted_entities_current_modification_cycle,
                 m_ghost_reuse_map, kv>>

internal_finish_modification_end ==
  /\ m_sync_state' = SYNCHRONIZED
  /\ m_deleted_entities' =
       update_deleted_entities_container(m_deleted_entities,
                                         m_deleted_entities_current_modification_cycle,
                                         m_ghost_reuse_map)
  /\ m_deleted_entities_current_modification_cycle' = <<>>
  /\ m_ghost_reuse_map' = [k \in Keys |-> 0]
  /\ m_entity_states' = reset_undeleted_entity_states_to_unchanged(m_entity_states)
  /\ UNCHANGED <<m_entity_repo, m_size, m_entity_keys, m_mesh_indexes, m_conn, kv>>

\* a modification end without the in_synchronized_state() test
UnguardedModificationEnd(op, assertsOn) ==
  IF assertsOn /\ check_for_connected_nodes(Mesh) # {}
  THEN Throws(op)
  ELSE ret' = Ret(op, 0, "true") /\ internal_finish_modification_end
\* a guarded modification end whose ThrowAssertMsg is compiled out in every build
GuardedModificationEndWithoutAssert(op, assertsOn) ==
  IF in_synchronized_state
  THEN ret' = Ret(op, 0, "false") /\ UNCHANGED <<meshvars, kv>>
  ELSE ret' = Ret(op, 0, "true") /\ internal_finish_modification_end

\* the variants that test in_synchronized_state() first; assertsOn: a build with
\* ThrowAssertMsg compiled in
GuardedModificationEnd(op, assertsOn) ==
  IF in_synchronized_state
  THEN ret' = Ret(op, 0, "false") /\ UNCHANGED <<meshvars, kv>>
  ELSE IF assertsOn /\ check_for_connected_nodes(Mesh) # {}
  THEN Throws(op)
  ELSE ret' = Ret(op, 0, "true") /\ internal_finish_modification_end

internal_modification_end_for_entity_creation ==
  \E assertsOn \in BOOLEAN :
    GuardedModificationEnd("internal_modification_end_for_entity_creation", assertsOn)
internal_modification_end_for_change_entity_owner ==
  \E assertsOn \in BOOLEAN :
    GuardedModificationEnd("internal_modification_end_for_change_entity_owner", assertsOn)
internal_modification_end_for_skin_mesh ==
  \E assertsOn \in BOOLEAN :
    GuardedModificationEnd("internal_modification_end_for_skin_mesh", assertsOn)
internal_modification_end_for_change_parts ==
  /\ ret' = Ret("internal_modification_end_for_change_parts", 0, "true")
  /\ internal_finish_modification_end
internal_modification_end_for_change_ghosting ==
  /\ ret' = Ret("internal_modification_end_for_change_ghosting", 0, "void")
  /\ internal_finish_modification_end

\* declare_entity whose parts go to internal_change_entity_parts as they are given,
\* without the supersets internal_verify_and_change_entity_parts adds
declare_entity_without_supersets(rank, id, parts) ==
  LET key == <<rank, id>>
      op == "declare_entity"
  IN IF in_synchronized_state \/ ~require_good_rank_and_id(rank, id)
     THEN Throws(op)
     ELSE LET exists == m_entity_repo[key] # 0
              g == generate_new_entity(0)
              declared_entity == IF exists THEN m_entity_repo[key] ELSE g.off
              M0 == IF exists THEN Mesh ELSE [g.M EXCEPT !.keys[g.off] = key]
              add == parts \cup {locally_owned_part}
              rem == fill_remove_parts_and_subsets_minus_parts_in_add_parts_list({}, add)
          IN /\ exists \/ g.off <= MaxOffset
             /\ SetMesh(internal_change_entity_parts(M0, declared_entity, add, rem))
             /\ m_entity_repo' = [m_entity_repo EXCEPT ![key] = declared_entity]
             /\ m_size' = IF exists THEN m_size ELSE g.size
             /\ m_deleted_entities' = IF exists THEN m_deleted_entities ELSE g.deleted
             /\ ret' = Ret(op, declared_entity, "entity")
             /\ UNCHANGED <<m_sync_state, m_deleted_entities_current_modification_cycle,
                            m_ghost_reuse_map, kv>>

\* declare_entity(rank, id, parts) -> internal_declare_entity
declare_entity(rank, id, parts) ==
  LET key == <<rank, id>>
      op == "declare_entity"
  IN IF in_synchronized_state \/ ~require_good_rank_and_id(rank, id)
     THEN Throws(op)
     ELSE LET exists == m_entity_repo[key] # 0
              g == generate_new_entity(0)
              declared_entity == IF exists THEN m_entity_repo[key] ELSE g.off
              M0 == IF exists THEN Mesh ELSE [g.M EXCEPT !.keys[g.off] = key]
              add == fill_add_parts_and_supersets(parts \cup {locally_owned_part})
              rem == fill_remove_parts_and_subsets_minus_parts_in_add_parts_list({}, add)
          IN /\ exists \/ g.off <= MaxOffset
             /\ SetMesh(internal_change_entity_parts(M0, declared_entity, add, rem))
             /\ m_entity_repo' = [m_entity_repo EXCEPT ![key] = declared_entity]
             /\ m_size' = IF exists THEN m_size ELSE g.size
             /\ m_deleted_entities' = IF exists THEN m_deleted_entities ELSE g.deleted
             /\ ret' = Ret(op, declared_entity, "entity")
             /\ UNCHANGED <<m_sync_state, m_deleted_entities_current_modification_cycle,
                            m_ghost_reuse_map, kv>>

\* declare_entity(rank, id): the overload without parts refuses the side rank
declare_entity_rank_id(rank, id) ==
  IF rank = side_rank
  THEN Throws("declare_entity")
  ELSE declare_entity(rank, id, {})

\* declare_entities(rank, newIds, parts, requested_entities), newIds = <<>> or <<id>>
declare_entities(rank, newIds, parts) ==
  LET op == "declare_entities"
  IN IF newIds = <<>>
     THEN ret' = Ret(op, 0, "void") /\ UNCHANGED <<meshvars, kv>>
     ELSE LET id == newIds[1]
              key == <<rank, id>>
              g == generate_new_entity(0)
              partsAndSupersets ==
                fill_add_parts_and_supersets(parts) \cup
                fill_add_parts_and_supersets({locally_owned_part})
              newBucketPartList == internal_fill_new_part_list({}, partsAndSupersets, {})
              fails == ~require_good_rank_and_id(rank, id) \/ m_entity_repo[key] # 0
              M1 == internal_move_entity_to_new_bucket([g.M EXCEPT !.keys[g.off] = key],
                                                       g.off, newBucketPartList)
          IN /\ g.off <= MaxOffset
             /\ m_size' = g.size
             /\ m_deleted_entities' = g.deleted
             /\ SetMesh(IF fails THEN g.M ELSE M1)
             /\ m_entity_repo' = IF fails THEN m_entity_repo
                                 ELSE [m_entity_repo EXCEPT ![key] = g.off]
             /\ ret' = Ret(op, g.off, IF fails THEN "throw" ELSE "void")
             /\ UNCHANGED <<m_sync_state, m_deleted_entities_current_modification_cycle,
                            m_ghost_reuse_map, kv>>

\* declare_relation(e_from, e_to, local_id) -> internal_declare_relation
declare_relation(e_from, e_to, local_id) ==
  LET op == "declare_relation"
  IN IF in_synchronized_state \/ ~require_valid_relation(Mesh, e_from, e_to)
     THEN Throws(op)
     ELSE /\ SetMesh(internal_declare_relation(Mesh, e_from, e_to, local_id))
          /\ ret' = Ret(op, 0, "void")
          /\ UNCHANGED <<m_sync_state, m_entity_repo, m_size, m_deleted_entities,
                         m_deleted_entities_current_modification_cycle, m_ghost_reuse_map, kv>>

\* destroy_relation(e_from, e_to, local_id) -> internal_destroy_relation
destroy_relation(e_from, e_to, local_id) ==
  LET op == "destroy_relation"
  IN IF in_synchronized_state \/ ~require_valid_relation(Mesh, e_from, e_to)
     THEN Throws(op)
     ELSE /\ SetMesh(internal_destroy_relation(Mesh, e_from, e_to, local_id))
          /\ ret' = Ret(op, 0,
                        IF <<e_to, local_id>> \in m_conn[e_from] THEN "true" ELSE "false")
          /\ UNCHANGED <<m_sync_state, m_entity_repo, m_size, m_deleted_entities,
                         m_deleted_entities_current_modification_cycle, m_ghost_reuse_map, kv>>

\* internal_destroy_entity without the test of impl::has_upward_connectivity
destroy_entity_despite_upward_connectivity(entity, wasGhost) ==
  LET op == "destroy_entity"
      key == m_entity_keys[entity]
      M1 == destroy_all_relations(Mesh, entity, RelationsHighToLow(Mesh, entity))
      M2 == [M1 EXCEPT !.parts[entity] = {}, !.st[entity] = Deleted]
  IN IF in_synchronized_state
     THEN Throws(op)
     ELSE IF ~is_valid(Mesh, entity)
     THEN ret' = Ret(op, entity, "false") /\ UNCHANGED <<meshvars, kv>>
     ELSE /\ SetMesh(M2)
          /\ m_entity_repo' = [m_entity_repo EXCEPT ![key] = 0]
          /\ m_ghost_reuse_map' = IF wasGhost THEN [m_ghost_reuse_map EXCEPT ![key] = entity]
                                  ELSE m_ghost_reuse_map
          /\ m_deleted_entities_current_modification_cycle' =
               IF wasGhost THEN m_deleted_entities_current_modification_cycle
               ELSE PushFront(m_deleted_entities_current_modification_cycle, entity)
          /\ ret' = Ret(op, entity, "true")
          /\ UNCHANGED <<m_sync_state, m_size, m_deleted_entities, kv>>
\* internal_destroy_entity refusing an entity that has any connectivity at all
destroy_entity_refusing_any_connectivity(entity, wasGhost) ==
  LET op == "destroy_entity"
      key == m_entity_keys[entity]
      M2 == [Mesh EXCEPT !.parts[entity] = {}, !.st[entity] = Deleted]
  IN IF in_synchronized_state
     THEN Throws(op)
     ELSE IF ~is_valid(Mesh, entity) \/ m_conn[entity] # {}
     THEN ret' = Ret(op, entity, "false") /\ UNCHANGED <<meshvars, kv>>
     ELSE /\ SetMesh(M2)
          /\ m_entity_repo' = [m_entity_repo EXCEPT ![key] = 0]
          /\ m_ghost_reuse_map' = m_ghost_reuse_map
          /\ m_deleted_entities_current_modification_cycle' =
               PushFront(m_deleted_entities_current_modification_cycle, entity)
          /\ ret' = Ret(op, entity, "true")
          /\ UNCHANGED <<m_sync_state, m_size, m_deleted_entities, kv>>
\* destroy_entity putting the offset on the free list at once
destroy_entity_freeing_offset_at_once(entity, wasGhost) ==
  LET op == "destroy_entity"
      key == m_entity_keys[entity]
      M1 == destroy_all_relations(Mesh, entity, RelationsHighToLow(Mesh, entity))
      M2 == [M1 EXCEPT !.parts[entity] = {}, !.st[entity] = Deleted]
  IN IF in_synchronized_state
     THEN Throws(op)
     ELSE IF ~is_valid(Mesh, entity) \/ has_upward_connectivity(Mesh, entity)
     THEN ret' = Ret(op, entity, "false") /\ UNCHANGED <<meshvars, kv>>
     ELSE /\ SetMesh(M2)
          /\ m_entity_repo' = [m_entity_repo EXCEPT ![key] = 0]
          /\ m_ghost_reuse_map' = IF wasGhost THEN [m_ghost_reuse_map EXCEPT ![key] = entity]
                                  ELSE m_ghost_reuse_map
          /\ m_deleted_entities' =
               IF wasGhost THEN m_deleted_entities ELSE PushFront(m_deleted_entities, entity)
          /\ ret' = Ret(op, entity, "true")
          /\ UNCHANGED <<m_sync_state, m_size, m_deleted_entities_current_modification_cycle, kv>>
\* destroy_entity(entity, wasGhost) -> internal_destroy_entity
destroy_entity(entity, wasGhost) ==
  LET op == "destroy_entity"
      key == m_entity_keys[entity]
      M1 == destroy_all_relations(Mesh, entity, RelationsHighToLow(Mesh, entity))
      \* record_entity_deletion
      M2 == [M1 EXCEPT !.parts[entity] = {}, !.st[entity] = Deleted]
  IN IF in_synchronized_state
     THEN Throws(op)
     ELSE IF ~is_valid(Mesh, entity) \/ has_upward_connectivity(Mesh, entity)
     THEN ret' = Ret(op, entity, "false") /\ UNCHANGED <<meshvars, kv>>
     ELSE /\ SetMesh(M2)
          /\ m_entity_repo' = [m_entity_repo EXCEPT ![key] = 0]
          /\ m_ghost_reuse_map' = IF wasGhost THEN [m_ghost_reuse_map EXCEPT ![key] = entity]
                                  ELSE m_ghost_reuse_map
          /\ m_deleted_entities_current_modification_cycle' =
               IF wasGhost THEN m_deleted_entities_current_modification_cycle
               ELSE PushFront(m_deleted_entities_current_modification_cycle, entity)
          /\ ret' = Ret(op, entity, "true")
          /\ UNCHANGED <<m_sync_state, m_size, m_deleted_entities, kv>>

\* is_auto_declared_part: the parts the mesh manages itself
is_auto_declared_part(p) == p \in {universal_part, locally_owned_part, globally_shared_part}

\* change_entity_parts(entity, add_parts, remove_parts) on a valid entity
change_entity_parts(entity, add_parts, remove_parts) ==
  LET op == "change_entity_parts"
      add == fill_add_parts_and_supersets(add_parts)
      rem == fill_remove_parts_and_subsets_minus_parts_in_add_parts_list(remove_parts, add)
  IN /\ is_valid(Mesh, entity)
     /\ IF (\E p \in add_parts \cup remove_parts : is_auto_declared_part(p))
           \/ in_synchronized_state
        THEN Throws(op)
        ELSE /\ SetMesh(internal_change_entity_parts(Mesh, entity, add, rem))
             /\ ret' = Ret(op, 0, "void")
             /\ UNCHANGED <<m_sync_state, m_entity_repo, m_size, m_deleted_entities,
                            m_deleted_entities_current_modification_cycle,
                            m_ghost_reuse_map, kv>>

\* EntityRepository::update_entity_key refuses a key that is in use
update_entity_key_ok(new_key, old_key) == new_key = old_key \/ m_entity_repo[new_key] = 0

\* change_entity_id(id, entity) on a valid entity (every entity here is purely local)
change_entity_id(id, entity) ==
  LET op == "change_entity_id"
      old_key == m_entity_keys[entity]
      new_key == <<old_key[1], id>>
  IN /\ is_valid(Mesh, entity)
     /\ IF in_synchronized_state \/ ~require_good_rank_and_id(old_key[1], id)
           \/ ~update_entity_key_ok(new_key, old_key)
        THEN Throws(op)
        ELSE /\ m_entity_repo' = [[m_entity_repo EXCEPT ![old_key] = 0] EXCEPT ![new_key] = entity]
             /\ m_entity_keys' = [m_entity_keys EXCEPT ![entity] = new_key]
             /\ ret' = Ret(op, 0, "void")
             /\ UNCHANGED <<m_sync_state, m_size, m_mesh_indexes, m_entity_states, m_conn,
                            m_deleted_entities, m_deleted_entities_current_modification_cycle,
                            m_ghost_reuse_map, kv>>

\* batch_change_entity_parts(entities, add_parts, remove_parts) on one valid entity,
\* had it gone on after modification_begin() returned false
batch_change_entity_parts_in_outer_scope(entity, add_parts, remove_parts) ==
  LET op == "batch_change_entity_parts"
      add == fill_add_parts_and_supersets(add_parts)
      rem == fill_remove_parts_and_subsets_minus_parts_in_add_parts_list(remove_parts, add)
      M == internal_change_entity_parts(Mesh, entity, add, rem)
  IN /\ is_valid(Mesh, entity)
     /\ IF \E p \in add_parts \cup remove_parts : is_auto_declared_part(p)
        THEN Throws(op)
        ELSE /\ m_entity_keys' = M.keys
             /\ m_mesh_indexes' = M.parts
             /\ m_conn' = M.conn
             /\ m_entity_states' = reset_undeleted_entity_states_to_unchanged(M.st)
             /\ m_sync_state' = SYNCHRONIZED
             /\ m_deleted_entities' =
                  update_deleted_entities_container(m_deleted_entities,
                                                    m_deleted_entities_current_modification_cycle,
                                                    m_ghost_reuse_map)
             /\ m_deleted_entities_current_modification_cycle' = <<>>
             /\ m_ghost_reuse_map' = [k \in Keys |-> 0]
             /\ ret' = Ret(op, 0, "void")
             /\ UNCHANGED <<m_entity_repo, m_size, kv>>
\* batch_change_entity_parts(entities, add_parts, remove_parts) on one valid entity:
\* modification_begin, the part change, internal_modification_end_for_change_parts
batch_change_entity_parts(entity, add_parts, remove_parts) ==
  LET op == "batch_change_entity_parts"
      add == fill_add_parts_and_supersets(add_parts)
      rem == fill_remove_parts_and_subsets_minus_parts_in_add_parts_list(remove_parts, add)
      starting_modification == in_synchronized_state
      M == internal_change_entity_parts(Mesh, entity, add, rem)
  IN /\ is_valid(Mesh, entity)
     /\ IF (\E p \in add_parts \cup remove_parts : is_auto_declared_part(p))
           \/ ~starting_modification
        THEN Throws(op)
        ELSE /\ m_entity_keys' = M.keys
             /\ m_mesh_indexes' = M.parts
             /\ m_conn' = M.conn
             /\ m_entity_states' = reset_undeleted_entity_states_to_unchanged(M.st)
             /\ m_sync_state' = SYNCHRONIZED
             /\ m_deleted_entities' =
                  update_deleted_entities_container(m_deleted_entities,
                                                    m_deleted_entities_current_modification_cycle,
                                                    m_ghost_reuse_map)
             /\ m_deleted_entities_current_modification_cycle' = <<>>
             /\ m_ghost_reuse_map' = [k \in Keys |-> 0]
             /\ ret' = Ret(op, 0, "void")
             /\ UNCHANGED <<m_entity_repo, m_size, kv>>

Next ==
  \/ modification_begin
  \/ internal_modification_end_for_entity_creation
  \/ internal_modification_end_for_change_entity_owner
  \/ internal_modification_end_for_skin_mesh
  \/ internal_modification_end_for_change_parts
  \/ internal_modification_end_for_change_ghosting
  \/ \E rank \in RankArgs, id \in IdArgs : \E parts \in PartArgs(rank) :
       declare_entity(rank, id, parts)
  \/ \E rank \in RankArgs, id \in IdArgs : declare_entity_rank_id(rank, id)
  \/ \E rank \in RankArgs, id \in IdArgs : \E parts \in PartArgs(rank) :
       declare_entities(rank, <<id>>, parts)
  \/ \E rank \in RankArgs : declare_entities(rank, <<>>, {})
  \/ \E e_from \in Handles, e_to \in Handles, o \in Ordinals : declare_relation(e_from, e_to, o)
  \/ \E e_from \in Handles, e_to \in Handles, o \in Ordinals : destroy_relation(e_from, e_to, o)
  \/ \E e \in Handles : destroy_entity(e, FALSE)
  \/ \E e \in Handles :
       \E add \in PartArgs(m_entity_keys[e][1]) \cup {{locally_owned_part}},
          rem \in PartArgs(m_entity_keys[e][1]) :
         change_entity_parts(e, add, rem)
  \/ \E e \in Handles, id \in IdArgs : change_entity_id(id, e)
  \/ \E e \in Handles :
       \E add \in PartArgs(m_entity_keys[e][1]) \cup {{locally_owned_part}},
          rem \in PartArgs(m_entity_keys[e][1]) :
         batch_change_entity_parts(e, add, rem)

Spec == Init /\ [][Next]_vars

\* ============================================================ parallel scenarios
Procs == 0 .. (NumProcs - 1)
parallel_size == NumProcs
SetMin(S) == CHOOSE x \in S : \A y \in S : x <= y
SetMax(S) == CHOOSE x \in S : \A y \in S : x >= y
\* the elements of a set of integers in ascending order
Ascending(S) == LET t == SortedSeq({<<x>> : x \in S}) IN [i \in 1 .. Len(t) |-> t[i][1]]
Orderings(S) ==
  {f \in [1 .. Cardinality(S) -> S] : \A i, j \in 1 .. Cardinality(S) : f[i] = f[j] => i = j}
IsDescending(f) == \A i, j \in DOMAIN f : i < j => f[i] > f[j]

\* int new_owner = ~0u: all bits set, read as an int
all_bits_set_as_int == 0 - 1

RECURSIVE determine_new_owner_loop(_, _)
determine_new_owner_loop(new_owner, shares) ==
  IF shares = <<>> THEN new_owner
  ELSE LET proc == Head(shares)
       IN determine_new_owner_loop(
            IF proc < parallel_size /\ (proc < new_owner \/ parallel_size <= new_owner)
            THEN proc ELSE new_owner,
            Tail(shares))

\* determine_new_owner that answers the local process whatever the sharing list holds
determine_new_owner_local(valid, parallel_rank, shared) ==
  IF valid THEN parallel_rank ELSE all_bits_set_as_int
\* determine_new_owner(entity): valid = is_valid(entity), shared = the processes of
\* the entity's SHARED comm entries
determine_new_owner(valid, parallel_rank, shared) ==
  determine_new_owner_loop(IF valid THEN parallel_rank ELSE all_bits_set_as_int,
                           Ascending(shared))

\* ---------------------------------------------------------------- SpecOwner
\* One entity key held by the processes `holders`, with symmetric sharing: `pre`
\* held it before this cycle (state Modified, owner o), the others created it.
NoQuery == [proc |-> 0 - 1, valid |-> FALSE, result |-> 0 - 1]
InitOwner ==
  /\ m_sync_state = MODIFIABLE
  /\ m_entity_repo = [k \in Keys |-> 0]
  /\ m_size = 1
  /\ m_entity_keys = [o \in Offsets |-> InvalidKey]
  /\ m_mesh_indexes = [o \in Offsets |-> {}]
  /\ m_entity_states = [o \in Offsets |-> Created]
  /\ m_conn = [o \in Offsets |-> {}]
  /\ m_deleted_entities = <<>>
  /\ m_deleted_entities_current_modification_cycle = <<>>
  /\ m_ghost_reuse_map = [k \in Keys |-> 0]
  /\ ret = Ret("construct", 0, "void")
  /\ \E holders \in SUBSET Procs : \E pre \in SUBSET holders :
       \E o \in (IF pre = {} THEN {0} ELSE pre) :
         /\ Cardinality(holders) >= 2
         /\ kv = [holders |-> holders,
                  shared |-> [p \in Procs |-> IF p \in holders THEN holders \ {p} ELSE {}],
                  state |-> [p \in Procs |-> IF p \in pre THEN Modified ELSE Created],
                  owner |-> [p \in Procs |-> IF p \in pre THEN o ELSE p],
                  parts |-> [p \in Procs |-> IF p \in holders
                                             THEN (IF p \in pre /\ p # o
                                                   THEN {universal_part, globally_shared_part}
                                                   ELSE {universal_part, locally_owned_part})
                                             ELSE {}],
                  inbox |-> [p \in Procs |-> {}],
                  pc |-> [p \in Procs |-> IF p \in holders THEN "marked" ELSE "none"],
                  q |-> NoQuery]

\* resolve_ownership_of_modified_entities, the collective pack_and_communicate: every
\* owner of the entity that did not create it sends the key to its sharers
resolve_ownership_pack_and_communicate ==
  /\ \A p \in kv.holders : kv.pc[p] = "marked"
  /\ kv' = [kv EXCEPT
       !.inbox = [r \in Procs |->
                    {p \in kv.holders : /\ kv.owner[p] = p
                                        /\ kv.state[p] # Created
                                        /\ r \in kv.shared[p]}],
       !.pc = [p \in Procs |-> IF p \in kv.holders THEN "packed" ELSE "none"]]
  /\ ret' = Ret("resolve_ownership_of_modified_entities", 0, "void")
  /\ UNCHANGED meshvars

\* resolve_ownership_of_modified_entities, the unpacking on process p: receive_proc
\* ascends, every key received sets the owner to its sender
resolve_ownership_unpack(p) ==
  /\ kv.pc[p] = "packed"
  /\ kv' = [kv EXCEPT
       !.owner[p] = IF kv.inbox[p] = {} THEN @ ELSE SetMax(kv.inbox[p]),
       !.pc[p] = "unpacked"]
  /\ ret' = Ret("resolve_ownership_of_modified_entities", 0, "void")
  /\ UNCHANGED meshvars

\* move_entities_to_proper_part_ownership on process p
move_entities_to_proper_part_ownership(p) ==
  /\ kv.pc[p] = "unpacked"
  /\ LET owner == IF kv.owner[p] = p /\ kv.state[p] = Created
                  THEN determine_new_owner(TRUE, p, kv.shared[p])
                  ELSE kv.owner[p]
         parts == IF owner # p
                  THEN (kv.parts[p] \cup {globally_shared_part}) \ {locally_owned_part}
                  ELSE IF kv.shared[p] # {}
                  THEN kv.parts[p] \cup {globally_shared_part}
                  ELSE kv.parts[p] \ {globally_shared_part}
     IN kv' = [kv EXCEPT !.owner[p] = owner, !.parts[p] = parts, !.pc[p] = "moved"]
  /\ ret' = Ret("move_entities_to_proper_part_ownership", 0, "void")
  /\ UNCHANGED meshvars

\* determine_new_owner asked on process p about the entity, still valid there or
\* destroyed there already
determine_new_owner_call(p, valid) ==
  /\ kv' = [kv EXCEPT !.q = [proc |-> p, valid |-> valid,
                             result |-> determine_new_owner(valid, p, kv.shared[p])]]
  /\ ret' = Ret("determine_new_owner", 0, "int")
  /\ UNCHANGED meshvars

NextOwner ==
  \/ resolve_ownership_pack_and_communicate
  \/ \E p \in Procs : resolve_ownership_unpack(p)
  \/ \E p \in Procs : move_entities_to_proper_part_ownership(p)
  \/ \E p \in Procs, valid \in BOOLEAN : determine_new_owner_call(p, valid)

SpecOwner == InitOwner /\ [][NextOwner]_vars

\* ------------------------------------------------------------------ SpecKey
\* Every process in `creators` has created one edge or face from two nodes that
\* all processes share, under a key of its own choice.
NodeIds == 1 .. MaxNode
NodeLists == {f \in [1 .. 2 -> NodeIds] : f[1] # f[2]}
ProposedIds == 1 .. MaxProposedId

\* sortNodesIfNeeded
sortNodesIfNeeded_unsorted(nodes) == nodes
sortNodesIfNeeded(nodes) == Ascending({nodes[i] : i \in DOMAIN nodes})

\* the shared_entity_type of markEntitiesForResolvingSharingInfoUsingNodes
shared_entity_type(key, nodes) ==
  [local_key |-> key, global_key |-> key, nodes |-> sortNodesIfNeeded(nodes),
   sharing_procs |-> <<>>]

\* update_owner_global_key_and_sharing_proc taking the smaller of the two keys
update_owner_global_key_taking_minimum(global_key_other_proc, sentity, proc_id, parallel_rank) ==
  [sentity EXCEPT !.sharing_procs = Append(@, proc_id),
                  !.global_key = IF global_key_other_proc < @ THEN global_key_other_proc ELSE @]
update_owner_global_key_and_sharing_proc(global_key_other_proc, sentity, proc_id, parallel_rank) ==
  [sentity EXCEPT !.sharing_procs = Append(@, proc_id),
                  !.global_key = IF proc_id < parallel_rank THEN global_key_other_proc ELSE @]

\* impl::is_received_entity_in_local_shared_entity_list: the same sorted node keys
is_received_entity_in_local_shared_entity_list(local, received) == local.nodes = received.nodes

RECURSIVE unpackEntityFromOtherProcAndUpdateInfoIfSharedLocally(_, _, _)
\* received: the <<proc, shared_entity_type>> pairs in the order they are unpacked
unpackEntityFromOtherProcAndUpdateInfoIfSharedLocally(parallel_rank, sentity, received) ==
  IF received = <<>> THEN sentity
  ELSE LET proc_id == Head(received)[1]
           other == Head(received)[2]
           next == IF is_received_entity_in_local_shared_entity_list(sentity, other)
                   THEN update_owner_global_key_and_sharing_proc(other.global_key, sentity,
                                                                 proc_id, parallel_rank)
                   ELSE sentity
       IN unpackEntityFromOtherProcAndUpdateInfoIfSharedLocally(parallel_rank, next,
                                                                Tail(received))

NoEntity == [local_key |-> 0, global_key |-> 0, nodes |-> <<>>, sharing_procs |-> <<>>]

InitKey ==
  /\ m_sync_state = MODIFIABLE
  /\ m_entity_repo = [k \in Keys |-> 0]
  /\ m_size = 1
  /\ m_entity_keys = [o \in Offsets |-> InvalidKey]
  /\ m_mesh_indexes = [o \in Offsets |-> {}]
  /\ m_entity_states = [o \in Offsets |-> Created]
  /\ m_conn = [o \in Offsets |-> {}]
  /\ m_deleted_entities = <<>>
  /\ m_deleted_entities_current_modification_cycle = <<>>
  /\ m_ghost_reuse_map = [k \in Keys |-> 0]
  /\ ret = Ret("construct", 0, "void")
  /\ \E creators \in SUBSET Procs :
       \E nodes \in [Procs -> NodeLists], local_key \in [Procs -> ProposedIds] :
         /\ creators # {}
         /\ \A p \in Procs \ creators : nodes[p] = <<1, 2>> /\ local_key[p] = 1
         /\ kv = [creators |-> creators,
                  nodes |-> nodes,
                  proposed |-> local_key,
                  sentity |-> [p \in Procs |-> NoEntity],
                  key |-> [p \in Procs |-> IF p \in creators THEN local_key[p] ELSE 0],
                  owner |-> [p \in Procs |-> p],
                  inbox |-> [p \in Procs |-> {}],
                  order |-> [p \in Procs |-> <<>>],
                  pc |-> [p \in Procs |-> IF p \in creators THEN "created" ELSE "none"]]

\* markEntitiesForResolvingSharingInfoUsingNodes, fillVectorOfSharedEntitiesByProcessor
\* and the collective impl::communicate_shared_entity_info: every creator sends its
\* shared_entity_type to the other processes that share both nodes
communicate_shared_entity_info ==
  /\ \A p \in kv.creators : kv.pc[p] = "created"
  /\ LET sent == [p \in Procs |-> IF p \in kv.creators
                                  THEN shared_entity_type(kv.key[p], kv.nodes[p])
                                  ELSE NoEntity]
     IN kv' = [kv EXCEPT
          !.sentity = sent,
          !.inbox = [r \in Procs |-> IF r \in kv.creators THEN kv.creators \ {r} ELSE {}],
          !.pc = [p \in Procs |-> IF p \in kv.creators THEN "communicated" ELSE "none"]]
  /\ ret' = Ret("communicate_shared_entity_info", 0, "void")
  /\ UNCHANGED meshvars

\* the rest of set_common_entity_key_and_fix_ordering_of_nodes_and_update_comm_map on
\* process p: unpack in the order `order`, change_entity_key_to_match_owner,
\* insert_sharing_info_into_comm_map
set_common_entity_key(p, order) ==
  /\ kv.pc[p] = "communicated"
  /\ LET received == [i \in DOMAIN order |-> <<order[i], kv.sentity[order[i]]>>]
         mine == unpackEntityFromOtherProcAndUpdateInfoIfSharedLocally(p, kv.sentity[p],
                                                                       received)
     IN kv' = [kv EXCEPT !.sentity[p] = mine,
                         !.key[p] = mine.global_key,
                         !.order[p] = order,
                         !.pc[p] = "keyed"]
  /\ ret' = Ret("set_common_entity_key_and_fix_ordering_of_nodes_and_update_comm_map", 0, "void")
  /\ UNCHANGED meshvars

\* internal_resolve_parallel_create on process p after the sharing is known: the
\* entity is Created and owned by p, so no owner claims it and
\* move_entities_to_proper_part_ownership asks determine_new_owner
internal_resolve_parallel_create(p) ==
  /\ kv.pc[p] = "keyed"
  /\ kv' = [kv EXCEPT
       !.owner[p] = IF kv.sentity[p].sharing_procs # <<>>
                    THEN determine_new_owner(TRUE, p, SeqSet(kv.sentity[p].sharing_procs))
                    ELSE @,
       !.pc[p] = "owned"]
  /\ ret' = Ret("internal_resolve_parallel_create", 0, "void")
  /\ UNCHANGED meshvars

NextKey ==
  \/ communicate_shared_entity_info
  \/ \E p \in Procs : \E order \in Orderings(kv.inbox[p]) : set_common_entity_key(p, order)
  \/ \E p \in Procs : internal_resolve_parallel_create(p)

SpecKey == InitKey /\ [][NextKey]_vars

\* ---------------------------------------------------------------- SpecGhost
\* One process of a parallel run: its entities have owners, and entities owned by
\* other processes arrive as ghosts (ghost_entities_and_fields), are destroyed and
\* arrive again.
ghost_part == "ghost"
GhostRanks == {NODE_RANK, ELEM_RANK}
\* the ranks declare_entity is called with in this scenario, the last one invalid
GhostRankArgs == GhostRanks \cup {entity_rank_count}

parallel_rank == kv.parallel_rank
parallel_owner_rank(entity) == kv.m_owner[entity]
\* in_receive_ghost: the entity's comm map holds a ghosting entry and another owner
in_receive_ghost(M, entity) ==
  is_valid(M, entity) /\ entity \in kv.ghosted /\ parallel_owner_rank(entity) # parallel_rank

\* require_entity_owner without the test
require_entity_owner_unchecked(M, entity, owner) == TRUE
\* require_entity_owner: TRUE where the code does not throw
require_entity_owner(M, entity, owner) ==
  ~(kv.parallel_size > 1 /\ M.parts[entity] # {} /\ owner # parallel_owner_rank(entity))

InitGhost ==
  /\ m_sync_state = MODIFIABLE
  /\ m_entity_repo = [k \in Keys |-> 0]
  /\ m_size = 1
  /\ m_entity_keys = [o \in Offsets |-> InvalidKey]
  /\ m_mesh_indexes = [o \in Offsets |-> {}]
  /\ m_entity_states = [o \in Offsets |-> Created]
  /\ m_conn = [o \in Offsets |-> {}]
  /\ m_deleted_entities = <<>>
  /\ m_deleted_entities_current_modification_cycle = <<>>
  /\ m_ghost_reuse_map = [k \in Keys |-> 0]
  /\ ret = Ret("construct", 0, "void")
  /\ \E size \in 1 .. MaxGhostProcs : \E rank \in 0 .. (size - 1) :
       kv = [parallel_size |-> size,
             parallel_rank |-> rank,
             m_owner |-> [o \in Offsets |-> rank],
             ghosted |-> {}]

\* internal_declare_entity in a parallel run: an existing entity must be owned by
\* the caller
internal_declare_entity(rank, id, parts) ==
  LET key == <<rank, id>>
      op == "declare_entity"
      exists == key \in Keys /\ m_entity_repo[key] # 0
      g == generate_new_entity(0)
      declared_entity == IF exists THEN m_entity_repo[key] ELSE g.off
      M0 == IF exists THEN Mesh ELSE [g.M EXCEPT !.keys[g.off] = key]
      add == fill_add_parts_and_supersets(parts \cup {locally_owned_part})
      rem == fill_remove_parts_and_subsets_minus_parts_in_add_parts_list({}, add)
  IN IF in_synchronized_state \/ ~require_good_rank_and_id(rank, id)
     THEN Throws(op)
     ELSE IF exists /\ ~require_entity_owner(Mesh, declared_entity, parallel_rank)
     THEN ret' = Ret(op, declared_entity, "throw") /\ UNCHANGED <<meshvars, kv>>
     ELSE /\ exists \/ g.off <= MaxOffset
          /\ SetMesh(internal_change_entity_parts(M0, declared_entity, add, rem))
          /\ m_entity_repo' = [m_entity_repo EXCEPT ![key] = declared_entity]
          /\ m_size' = IF exists THEN m_size ELSE g.size
          /\ m_deleted_entities' = IF exists THEN m_deleted_entities ELSE g.deleted
          /\ ret' = Ret(op, declared_entity, "entity")
          /\ kv' = [kv EXCEPT !.m_owner[declared_entity] = IF exists THEN @ ELSE parallel_rank,
                              !.ghosted = IF exists THEN @ ELSE @ \ {declared_entity}]
          /\ UNCHANGED <<m_sync_state, m_deleted_entities_current_modification_cycle,
                         m_ghost_reuse_map>>

\* ghost_entities_and_fields, the unpacking of one entity sent by its owner
ghost_entities_and_fields(key, owner) ==
  LET op == "ghost_entities_and_fields"
      parts == {universal_part, ghost_part}
      use_this_offset == m_ghost_reuse_map[key]
      reuse == [m_ghost_reuse_map EXCEPT ![key] = 0]
      exists == m_entity_repo[key] # 0
      g == generate_new_entity(use_this_offset)
      entity == IF exists THEN m_entity_repo[key] ELSE g.off
      M0 == IF exists THEN Mesh ELSE [g.M EXCEPT !.keys[g.off] = key]
  IN /\ ~in_synchronized_state
     /\ owner # parallel_rank
     /\ exists \/ g.off <= MaxOffset
     /\ m_ghost_reuse_map' = reuse
     /\ m_entity_repo' = [m_entity_repo EXCEPT ![key] = entity]
     /\ m_size' = IF exists THEN m_size ELSE g.size
     /\ m_deleted_entities' = IF exists THEN m_deleted_entities ELSE g.deleted
     /\ UNCHANGED <<m_sync_state, m_deleted_entities_current_modification_cycle>>
     /\ IF ~require_entity_owner(M0, entity, owner)
        THEN /\ SetMesh(M0)
             /\ ret' = Ret(op, entity, "throw")
             /\ UNCHANGED kv
        ELSE /\ SetMesh(internal_change_entity_parts(M0, entity, parts, {}))
             /\ ret' = Ret(op, entity, IF exists THEN "existing" ELSE "created")
             /\ kv' = [kv EXCEPT !.m_owner[entity] = owner,
                                 !.ghosted = @ \cup {entity}]

NextGhost ==
  \/ \E rank \in GhostRankArgs, id \in IdArgs : internal_declare_entity(rank, id, {})
  \/ \E rank \in GhostRanks, id \in Ids : \E owner \in 0 .. (kv.parallel_size - 1) :
       ghost_entities_and_fields(<<rank, id>>, owner)
  \/ \E entity \in Handles : destroy_entity(entity, in_receive_ghost(Mesh, entity))
  \/ modification_begin
  \/ internal_modification_end_for_change_ghosting

SpecGhost == InitGhost /\ [][NextGhost]_vars

\* ======================================================= induced parts (SpecInduce)
\* One modification cycle on a mesh of three declared entities: node 1, element 1
\* and either a second element or face 1.  Relations among them are declared and
\* destroyed and the block is put on and taken off any of the entities.
\*   kv.parallel_size : the number of processes of the run
\*   kv.shared        : the entities whose comm map names a sharing process
InduceLayouts == {<<<<NODE_RANK, 1>>, <<ELEM_RANK, 1>>, <<ELEM_RANK, 2>>>>,
                  <<<<NODE_RANK, 1>>, <<ELEM_RANK, 1>>, <<FACE_RANK, 1>>>>}

\* change_entity_parts takes any part that is not internally managed, whatever the
\* rank of the entity
AnyRankPartArgs == {{}, {block_part}}

\* internal_entity_comm_map_shared(entity).empty()
internal_entity_comm_map_shared_empty(entity) == entity \notin kv.shared

\* the arrays after internal_declare_entity(key, parts) has created the entity at off
DeclaredMesh(M, off, key, parts) ==
  LET add == fill_add_parts_and_supersets(parts \cup {locally_owned_part})
      rem == fill_remove_parts_and_subsets_minus_parts_in_add_parts_list({}, add)
  IN internal_change_entity_parts([M EXCEPT !.keys[off] = key], off, add, rem)

InitInduce ==
  \E layout \in InduceLayouts :
    \E p2 \in PartArgs(layout[2][1]), p3 \in PartArgs(layout[3][1]) :
      LET M0 == [keys |-> [o \in Offsets |-> InvalidKey], parts |-> [o \in Offsets |-> {}],
                 st |-> [o \in Offsets |-> Created], conn |-> [o \in Offsets |-> {}]]
          M3 == DeclaredMesh(DeclaredMesh(DeclaredMesh(M0, 1, layout[1], {}),
                                          2, layout[2], p2), 3, layout[3], p3)
      IN /\ m_sync_state = MODIFIABLE
         /\ m_entity_repo = [k \in Keys |-> 0]
         /\ m_size = 4
         /\ m_entity_keys = M3.keys
         /\ m_mesh_indexes = M3.parts
         /\ m_entity_states = M3.st
         /\ m_conn = M3.conn
         /\ m_deleted_entities = <<>>
         /\ m_deleted_entities_current_modification_cycle = <<>>
         /\ m_ghost_reuse_map = [k \in Keys |-> 0]
         /\ ret = Ret("declare_entity", 3, "entity")
         /\ \E size \in 1 .. MaxGhostProcs :
              \E shared \in (IF size > 1 THEN {{}, {1}} ELSE {{}}) :
                kv = [parallel_size |-> size, shared |-> shared]

\* destroy_relation(e_from, e_to, local_id) of a run of kv.parallel_size processes
destroy_relation_parallel(e_from, e_to, local_id) ==
  LET op == "destroy_relation"
  IN IF in_synchronized_state \/ ~require_valid_relation(Mesh, e_from, e_to)
     THEN Throws(op)
     ELSE /\ SetMesh(IF kv.parallel_size < 2 \/ internal_entity_comm_map_shared_empty(e_to)
                     THEN internal_destroy_relation(Mesh, e_from, e_to, local_id)
                     ELSE internal_destroy_relation_of_shared(Mesh, e_from, e_to, local_id))
          /\ ret' = Ret(op, e_to,
                        IF <<e_to, local_id>> \in m_conn[e_from] THEN "true" ELSE "false")
          /\ UNCHANGED <<m_sync_state, m_entity_repo, m_size, m_deleted_entities,
                         m_deleted_entities_current_modification_cycle, m_ghost_reuse_map, kv>>

NextInduce ==
  \/ \E e_from \in Handles, e_to \in Handles, o \in Ordinals : declare_relation(e_from, e_to, o)
  \/ \E e_from \in Handles, e_to \in Handles, o \in Ordinals :
       destroy_relation_parallel(e_from, e_to, o)
  \/ \E e \in Handles :
       \E add \in AnyRankPartArgs, rem \in AnyRankPartArgs : change_entity_parts(e, add, rem)

SpecInduce == InitInduce /\ [][NextInduce]_vars

\* ================================================ error synchronisation (SpecSync)
\* The end of a modification cycle of a run of NumProcs processes, as far as its
\* parallel-consistent error checks go: move_entities_to_proper_part_ownership,
\* internal_resolve_shared_membership and check_mesh_consistency, in this order.
\*   kv.NDEBUG                : the build defines NDEBUG (a release build)
\*   kv.m_runConsistencyCheck : init_mesh_consistency_check_mode's result
\*   kv.pc[p]                 : the position of process p
\*   kv.flag[p]               : the value p brings to the reduction it waits in
\*   kv.detected[p]           : p found an error in this modification end
\*   kv.thrown[p]             : the function p threw from ("": it did not throw)
SyncMesh ==
  /\ m_sync_state = MODIFIABLE
  /\ m_entity_repo = [k \in Keys |-> 0]
  /\ m_size = 1
  /\ m_entity_keys = [o \in Offsets |-> InvalidKey]
  /\ m_mesh_indexes = [o \in Offsets |-> {}]
  /\ m_entity_states = [o \in Offsets |-> Created]
  /\ m_conn = [o \in Offsets |-> {}]
  /\ m_deleted_entities = <<>>
  /\ m_deleted_entities_current_modification_cycle = <<>>
  /\ m_ghost_reuse_map = [k \in Keys |-> 0]

\* init_mesh_consistency_check_mode: the environment variable, or the build's default
init_mesh_consistency_check_mode(NDEBUG, env) ==
  IF env = "unset" THEN ~NDEBUG ELSE env = "true"

InitSync ==
  /\ SyncMesh
  /\ ret = Ret("construct", 0, "void")
  /\ \E NDEBUG \in BOOLEAN, env \in {"unset", "true", "false"} :
       kv = [NDEBUG |-> NDEBUG,
             m_runConsistencyCheck |-> init_mesh_consistency_check_mode(NDEBUG, env),
             pc |-> [p \in Procs |-> "move"],
             flag |-> [p \in Procs |-> 0],
             detected |-> [p \in Procs |-> FALSE],
             thrown |-> [p \in Procs |-> ""]]

\* process p goes to position pos, bringing flag to the reduction there
SyncStep(op, p, pos, flag, detects) ==
  /\ kv' = [kv EXCEPT !.pc[p] = pos, !.flag[p] = flag,
                      !.detected[p] = @ \/ detects]
  /\ ret' = Ret(op, 0, "void")
  /\ UNCHANGED meshvars
\* the reduction every process waits in at position pos completes: each process
\* throws from op if fails holds of the reduced value, and goes on to next if not
SyncReduce(op, pos, reduced, fails, next) ==
  /\ \A p \in Procs : kv.pc[p] = pos
  /\ kv' = [kv EXCEPT
       !.pc = [p \in Procs |-> IF fails THEN "thrown" ELSE next],
       !.thrown = [p \in Procs |-> IF fails THEN op ELSE kv.thrown[p]],
       !.flag = [p \in Procs |-> reduced]]
  /\ ret' = Ret(op, 0, IF fails THEN "throw" ELSE "void")
  /\ UNCHANGED meshvars
ReduceMax(f) == CHOOSE m \in {f[p] : p \in Procs} : \A p \in Procs : f[p] <= m
ReduceMin(f) == CHOOSE m \in {f[p] : p \in Procs} : \A p \in Procs : f[p] >= m

\* move_entities_to_proper_part_ownership on process p up to its all_reduce;
\* isEntityGhost: some created entity of shared_modified is not in the owned closure
move_entities_error_flag(p, isEntityGhost) ==
  /\ kv.pc[p] = "move"
  /\ SyncStep("move_entities_to_proper_part_ownership", p, "move_all_reduce",
              IF isEntityGhost THEN 1 ELSE 0, isEntityGhost)
\* all_reduce(parallel(), ReduceMax<1>(&error_flag)); ThrowErrorMsgIf(error_flag, ...)
move_entities_all_reduce ==
  SyncReduce("move_entities_to_proper_part_ownership", "move_all_reduce",
             ReduceMax(kv.flag), ReduceMax(kv.flag) # 0, "resolve")

\* internal_resolve_shared_membership on process p; raises: remove_unneeded_induced_parts
\* throws there.  With NDEBUG the exception is written to std::cerr and p goes on
internal_resolve_shared_membership(p, raises) ==
  /\ kv.pc[p] = "resolve"
  /\ SyncStep("internal_resolve_shared_membership", p,
              IF kv.NDEBUG THEN "check" ELSE "is_true_on_all_procs",
              IF raises THEN 0 ELSE 1, raises)
\* if (!stk::is_true_on_all_procs(parallel(), localOk)) ThrowErrorMsg(msg), without NDEBUG
is_true_on_all_procs ==
  SyncReduce("internal_resolve_shared_membership", "is_true_on_all_procs",
             ReduceMin(kv.flag), ReduceMin(kv.flag) = 0, "check")

\* check_mesh_consistency on process p: nothing unless m_runConsistencyCheck, else
\* comm_mesh_verify_parallel_consistency up to its first all_reduce
check_mesh_consistency(p, attributes_ok) ==
  /\ kv.pc[p] = "check"
  /\ IF kv.m_runConsistencyCheck
     THEN SyncStep("comm_mesh_verify_parallel_consistency", p, "attributes_all_reduce",
                   IF attributes_ok THEN 1 ELSE 0, ~attributes_ok)
     ELSE SyncStep("check_mesh_consistency", p, "finish", 0, FALSE)
\* all_reduce(parallel(), ReduceMin<1>(&verified_ok)) after verify_parallel_attributes;
\* a false result leaves comm_mesh_verify_parallel_consistency and check_mesh_consistency throws
attributes_all_reduce ==
  SyncReduce("check_mesh_consistency", "attributes_all_reduce",
             ReduceMin(kv.flag), ReduceMin(kv.flag) = 0, "unpack")
\* impl::unpack_not_owned_verify on process p, up to the second all_reduce
unpack_not_owned_verify(p, owned_ok) ==
  /\ kv.pc[p] = "unpack"
  /\ SyncStep("comm_mesh_verify_parallel_consistency", p, "owned_all_reduce",
              IF owned_ok THEN 1 ELSE 0, ~owned_ok)
owned_all_reduce ==
  SyncReduce("check_mesh_consistency", "owned_all_reduce",
             ReduceMin(kv.flag), ReduceMin(kv.flag) = 0, "finish")

\* internal_finish_modification_end on process p: the cycle has succeeded there
finish_modification_end(p) ==
  /\ kv.pc[p] = "finish"
  /\ SyncStep("internal_finish_modification_end", p, "done", 0, FALSE)

NextSync ==
  \/ \E p \in Procs, isEntityGhost \in BOOLEAN : move_entities_error_flag(p, isEntityGhost)
  \/ move_entities_all_reduce
  \/ \E p \in Procs, raises \in BOOLEAN : internal_resolve_shared_membership(p, raises)
  \/ is_true_on_all_procs
  \/ \E p \in Procs, attributes_ok \in BOOLEAN : check_mesh_consistency(p, attributes_ok)
  \/ attributes_all_reduce
  \/ \E p \in Procs, owned_ok \in BOOLEAN : unpack_not_owned_verify(p, owned_ok)
  \/ owned_all_reduce
  \/ \E p \in Procs : finish_modification_end(p)

SpecSync == InitSync /\ [][NextSync]_vars

\* ==================================== krino batch_create_child_nodes (SpecChild)
\* batch_create_child_nodes on NumProcs processes, each with MaxRequests child node
\* requests.  The parents of a request are valid nodes (0), hold an entity that
\* never becomes valid (-1), or include the child of another request of the process
\* (the index of that request).
\*   kv.parents[p][r]             : the parents of request r of process p
\*   kv.child[p][r]               : *request.child is a valid entity
\*   kv.communicate_request[p][r] : the vector of the same name
\*   kv.active[p]                 : active_child_node_requests of this round
\*   kv.more_work_to_be_done[p]   : the flag of this round
\*   kv.rounds[p]                 : iterations of the while loop begun
\*   kv.pc[p]                     : the position of process p
Requests == 1 .. MaxRequests
ParentKinds(r) == {0, -1} \cup (Requests \ {r})

InitChild ==
  /\ SyncMesh
  /\ ret = Ret("construct", 0, "void")
  /\ \E parents \in [Procs -> [Requests -> {0, -1} \cup Requests]] :
       /\ \A p \in Procs, r \in Requests : parents[p][r] \in ParentKinds(r)
       /\ kv = [parents |-> parents,
                child |-> [p \in Procs |-> [r \in Requests |-> FALSE]],
                communicate_request |-> [p \in Procs |-> [r \in Requests |-> FALSE]],
                active |-> [p \in Procs |-> {}],
                more_work_to_be_done |-> [p \in Procs |-> 0],
                rounds |-> [p \in Procs |-> 0],
                pc |-> [p \in Procs |-> "scan"]]

\* a request is taken as ready although a parent is never valid
request_is_ready_unchecked(p, r) ==
  LET parent == kv.parents[p][r]
  IN IF parent <= 0 THEN TRUE ELSE kv.child[p][parent]
\* request_is_ready: mesh.is_valid(*request_parent) of every parent
request_is_ready(p, r) ==
  LET parent == kv.parents[p][r]
  IN IF parent = 0 THEN TRUE
     ELSE IF parent < 0 THEN FALSE
     ELSE kv.child[p][parent]

\* a break decided on the process's own flag, without the reduction
local_more_work_to_be_done(p) == kv.more_work_to_be_done[p]
\* stk::all_reduce_max(mesh.parallel(), &more_work_to_be_done, &global_more_work_to_be_done, 1)
global_more_work_to_be_done(p) == ReduceMax(kv.more_work_to_be_done)

\* the loop over child_node_requests of one iteration on process p
batch_create_child_nodes_scan(p) ==
  /\ kv.pc[p] = "scan"
  /\ LET ready == {r \in Requests : ~kv.communicate_request[p][r] /\ request_is_ready(p, r)}
     IN kv' = [kv EXCEPT
          !.communicate_request[p] = [r \in Requests |-> @[r] \/ r \in ready],
          !.active[p] = ready,
          !.more_work_to_be_done[p] = IF ready # {} THEN 1 ELSE 0,
          !.rounds[p] = @ + 1,
          !.pc[p] = "all_reduce_max"]
  /\ ret' = Ret("batch_create_child_nodes", 0, "scan")
  /\ UNCHANGED meshvars

\* the all_reduce_max every process waits in, and the break
batch_create_child_nodes_all_reduce_max ==
  /\ \A p \in Procs : kv.pc[p] = "all_reduce_max"
  /\ kv' = [kv EXCEPT !.pc = [p \in Procs |-> IF global_more_work_to_be_done(p) = 0
                                              THEN "break" ELSE "communicate"]]
  /\ ret' = Ret("batch_create_child_nodes", 0, "all_reduce_max")
  /\ UNCHANGED meshvars

\* the exchange of the active requests and set_node_entity_for_request on process p
batch_create_child_nodes_communicate(p) ==
  /\ kv.pc[p] = "communicate"
  /\ kv' = [kv EXCEPT
       !.child[p] = [r \in Requests |-> @[r] \/ r \in kv.active[p]],
       !.active[p] = {},
       !.pc[p] = "scan"]
  /\ ret' = Ret("batch_create_child_nodes", 0, "communicate")
  /\ UNCHANGED meshvars

\* after the loop: ThrowRequireMsg that every request was communicated
batch_create_child_nodes_return(p) ==
  /\ kv.pc[p] = "break"
  /\ LET ok == \A r \in Requests : kv.communicate_request[p][r]
     IN /\ kv' = [kv EXCEPT !.pc[p] = IF ok THEN "done" ELSE "thrown"]
        /\ ret' = Ret("batch_create_child_nodes", 0, IF ok THEN "void" ELSE "throw")
  /\ UNCHANGED meshvars

NextChild ==
  \/ \E p \in Procs : batch_create_child_nodes_scan(p)
  \/ batch_create_child_nodes_all_reduce_max
  \/ \E p \in Procs : batch_create_child_nodes_communicate(p)
  \/ \E p \in Procs : batch_create_child_nodes_return(p)

SpecChild == InitChild /\ [][NextChild]_vars

\* every process runs the function to its end, and the collective steps are taken
\* once every process has reached them
SpecChildFair == InitChild /\ [][NextChild]_vars /\ WF_vars(NextChild)

\* =============================== krino ActiveChildNodeRequest ids (SpecChildId)
\* One child node request whose parents are shared by the processes kv.sharers, in
\* the round of batch_create_child_nodes that communicates it.
\*   kv.available_node_id[p] : the id process p took from its pool for the request
\*   kv.pairs[p]             : m_id_proc_pairs_from_all_procs on p, (proc, id) pairs
\*   kv.child[p]             : the id of the node p declared for the request (0: none)
\*   kv.pc[p]                : the position of process p
InitChildId ==
  /\ SyncMesh
  /\ ret = Ret("construct", 0, "void")
  /\ \E sharers \in SUBSET Procs : \E ids \in [Procs -> ProposedIds] :
       /\ sharers # {}
       /\ kv = [sharers |-> sharers,
                available_node_id |-> ids,
                pairs |-> [p \in Procs |-> <<>>],
                child |-> [p \in Procs |-> 0],
                pc |-> [p \in Procs |-> IF p \in sharers THEN "ready" ELSE "none"]]

\* ActiveChildNodeRequest::suggested_node_id
suggested_node_id(pairs) == pairs[1][2]
\* ActiveChildNodeRequest::sort_id_proc_pairs: std::sort of the (proc, id) pairs
sort_id_proc_pairs(pairs) == SortedSeq(SeqSet(pairs))
\* ActiveChildNodeRequest::get_id_for_child
get_id_for_child(sorted_pairs) == sorted_pairs[1][2]

\* the request becomes active on process p: add_proc_id_pair(parallel_rank, id)
add_own_proc_id_pair(p) ==
  /\ kv.pc[p] = "ready"
  /\ kv' = [kv EXCEPT !.pairs[p] = <<<<p, kv.available_node_id[p]>>>>, !.pc[p] = "active"]
  /\ ret' = Ret("batch_create_child_nodes", 0, "active")
  /\ UNCHANGED meshvars

RECURSIVE UnpackSuggestedIds(_, _, _)
\* the unpack loop on process p over the sending processes i, i and later
UnpackSuggestedIds(pairs, p, i) ==
  IF i >= NumProcs THEN pairs
  ELSE UnpackSuggestedIds(
         IF i # p /\ i \in kv.sharers
         THEN Append(pairs, <<i, suggested_node_id(kv.pairs[i])>>) ELSE pairs,
         p, i + 1)
\* the exchange: every sharer sends its suggested id to the others, which add it
communicate_suggested_node_ids ==
  /\ \A p \in kv.sharers : kv.pc[p] = "active"
  /\ kv' = [kv EXCEPT
       !.pairs = [p \in Procs |-> IF p \in kv.sharers
                                  THEN UnpackSuggestedIds(kv.pairs[p], p, 0) ELSE <<>>],
       !.pc = [p \in Procs |-> IF p \in kv.sharers THEN "unpacked" ELSE "none"]]
  /\ ret' = Ret("batch_create_child_nodes", 0, "communicate")
  /\ UNCHANGED meshvars

\* ActiveChildNodeRequest::set_node_entity_for_request on process p
set_node_entity_for_request(p) ==
  /\ kv.pc[p] = "unpacked"
  /\ LET sorted == sort_id_proc_pairs(kv.pairs[p])
     IN kv' = [kv EXCEPT !.pairs[p] = sorted, !.child[p] = get_id_for_child(sorted),
                         !.pc[p] = "declared"]
  /\ ret' = Ret("set_node_entity_for_request", 0, "void")
  /\ UNCHANGED meshvars

NextChildId ==
  \/ \E p \in Procs : add_own_proc_id_pair(p)
  \/ communicate_suggested_node_ids
  \/ \E p \in Procs : set_node_entity_for_request(p)

SpecChildId == InitChildId /\ [][NextChildId]_vars

\* ======================================= BulkData::generate_new_ids (SpecIds)
\* The entities of one rank other than the side rank, on the processes IdProcs.
\*   kv.bucket_ids[p]   : the ids of the entities of the rank in the buckets of p
\*   kv.deleted_ids[p]  : the ids of the entities of the rank that p destroyed in
\*                        this modification cycle
\*   kv.requestedIds[p] : the ids the last generate_new_ids returned on p
\*   kv.pc              : "idle", "ids" (generate_new_ids returned), "throw"
IdProcs == 0 .. (MaxGhostProcs - 1)
PoolIds == 1 .. MaxAllowedId

InitIds ==
  /\ SyncMesh
  /\ ret = Ret("construct", 0, "void")
  /\ kv = [bucket_ids |-> [p \in IdProcs |-> {}],
           deleted_ids |-> [p \in IdProcs |-> {}],
           numIdsNeeded |-> [p \in IdProcs |-> 0],
           requestedIds |-> [p \in IdProcs |-> <<>>],
           pc |-> "idle"]

\* BulkData::internal_get_ids_in_use on process p: the ids in the buckets of the
\* rank and the ids of the entities deleted in this modification cycle
internal_get_ids_in_use_deleted_only(p) == kv.deleted_ids[p]
internal_get_ids_in_use(p) == kv.bucket_ids[p] \cup kv.deleted_ids[p]
\* BulkData::get_max_allowed_id
get_max_allowed_id == MaxAllowedId
\* impl::get_global_max_id_in_use: the largest id in use on any process, 0 if none
get_global_max_id_in_use ==
  SetMax({0} \cup UNION {internal_get_ids_in_use(p) : p \in IdProcs})
\* the number of ids the processes below p ask for
RECURSIVE IdsBelow(_, _)
IdsBelow(numIdsNeeded, p) ==
  IF p = 0 THEN 0 ELSE numIdsNeeded[p - 1] + IdsBelow(numIdsNeeded, p - 1)
\* stk::generate_parallel_ids_above_existing_max on process p: consecutive ids
\* above the global maximum, the block of p after the blocks of the lower processes
generate_parallel_ids_above_existing_max(numIdsNeeded, globalMaxId, p) ==
  [i \in 1 .. numIdsNeeded[p] |-> globalMaxId + IdsBelow(numIdsNeeded, p) + i]
\* stk::generate_parallel_unique_ids on process p: the ids up to maxAllowedId that
\* no process has in use, in ascending order, the share of p after the shares of
\* the lower processes; empty when too few ids are left
UnusedIds(maxAllowedId) ==
  Ascending((1 .. maxAllowedId) \ UNION {internal_get_ids_in_use(q) : q \in IdProcs})
generate_parallel_unique_ids(maxAllowedId, numIdsNeeded, p) ==
  LET unused == UnusedIds(maxAllowedId)
  IN IF IdsBelow(numIdsNeeded, MaxGhostProcs) > Len(unused) THEN <<>>
     ELSE [i \in 1 .. numIdsNeeded[p] |-> unused[IdsBelow(numIdsNeeded, p) + i]]

\* BulkData::generate_new_ids(rank, numIdsNeeded, requestedIds), collective, for a
\* rank other than the side rank
generate_new_ids(numIdsNeeded) ==
  LET maxAllowedId == get_max_allowed_id
      globalNumIdsRequested == IdsBelow(numIdsNeeded, MaxGhostProcs)
      globalMaxId == get_global_max_id_in_use
      availableIds == maxAllowedId - globalMaxId
  IN /\ m_sync_state = MODIFIABLE
     /\ kv.pc = "idle"
     /\ IF globalNumIdsRequested = 0
        THEN kv' = [kv EXCEPT !.numIdsNeeded = numIdsNeeded,
                              !.requestedIds = [p \in IdProcs |-> <<>>], !.pc = "ids"]
        ELSE IF globalNumIdsRequested < availableIds
        THEN kv' = [kv EXCEPT !.numIdsNeeded = numIdsNeeded,
                    !.requestedIds = [p \in IdProcs |->
                      generate_parallel_ids_above_existing_max(numIdsNeeded, globalMaxId, p)],
                    !.pc = "ids"]
        ELSE kv' = [kv EXCEPT !.numIdsNeeded = numIdsNeeded,
                    !.requestedIds = [p \in IdProcs |->
                      generate_parallel_unique_ids(maxAllowedId, numIdsNeeded, p)],
                    !.pc = IF globalNumIdsRequested > Len(UnusedIds(maxAllowedId))
                           THEN "throw" ELSE "ids"]
     /\ ret' = Ret("generate_new_ids", 0, IF kv'.pc = "throw" THEN "throw" ELSE "void")
     /\ UNCHANGED meshvars

\* BulkData::declare_entities(rank, requestedIds, parts, requested_entities) on
\* every process, as generate_new_entities calls it with the generated ids
declare_entities_of_new_ids ==
  /\ kv.pc = "ids"
  /\ kv' = [kv EXCEPT !.bucket_ids = [p \in IdProcs |->
                        kv.bucket_ids[p] \cup SeqSet(kv.requestedIds[p])],
                      !.numIdsNeeded = [p \in IdProcs |-> 0],
                      !.requestedIds = [p \in IdProcs |-> <<>>],
                      !.pc = "idle"]
  /\ ret' = Ret("declare_entities", 0, "void")
  /\ UNCHANGED meshvars

\* BulkData::declare_entity(rank, id) on process p with an id the caller chose
declare_entity_with_id(p, id) ==
  /\ kv.pc = "idle"
  /\ id \notin kv.bucket_ids[p]
  /\ kv' = [kv EXCEPT !.bucket_ids[p] = @ \cup {id}]
  /\ ret' = Ret("declare_entity", 0, "void")
  /\ UNCHANGED meshvars

\* BulkData::destroy_entity on process p: the entity leaves its bucket and is
\* kept in m_deleted_entities_current_modification_cycle
destroy_entity_with_id(p, id) ==
  /\ kv.pc = "idle"
  /\ id \in kv.bucket_ids[p]
  /\ kv' = [kv EXCEPT !.bucket_ids[p] = @ \ {id}, !.deleted_ids[p] = @ \cup {id}]
  /\ ret' = Ret("destroy_entity", 0, "void")
  /\ UNCHANGED meshvars

\* modification_end followed by modification_begin: the list of the entities
\* deleted in the cycle is cleared
next_modification_cycle ==
  /\ kv.pc = "idle"
  /\ \E p \in IdProcs : kv.deleted_ids[p] # {}
  /\ kv' = [kv EXCEPT !.deleted_ids = [p \in IdProcs |-> {}]]
  /\ ret' = Ret("modification_begin", 0, "void")
  /\ UNCHANGED meshvars

NextIds ==
  \/ \E numIdsNeeded \in [IdProcs -> 0 .. MaxNewIds] : generate_new_ids(numIdsNeeded)
  \/ declare_entities_of_new_ids
  \/ \E p \in IdProcs : \E id \in PoolIds : declare_entity_with_id(p, id)
  \/ \E p \in IdProcs : \E id \in PoolIds : destroy_entity_with_id(p, id)
  \/ next_modification_cycle

SpecIds == InitIds /\ [][NextIds]_vars

\* ============================== BulkData::declare_element_side (SpecSide)
\* Two quadrilateral elements, one on each of two processes, that have the nodes 2
\* and 3 in common; each process may declare one side of its element.
\*   kv.graph       : has_face_adjacent_element_graph()
\*   kv.elem_id[p]  : the id of the element of process p
\*   kv.side_id[p]  : the id of the side on process p (0: no side)
\*   kv.sideOrd[p]  : the ordinal at which the side is attached to the element
\*   kv.sentity[p]  : the shared_entity_type process p sent for its side
\*   kv.pc[p]       : "none", "created", "communicated", "resolved"
SideProcs == {0, 1}
ElemIds == 1 .. MaxElemId
\* the nodes of the two elements, in the order of the element's topology
ElemNodes == [p \in SideProcs |-> IF p = 0 THEN <<0, 1, 2, 3>> ELSE <<2, 3, 4, 5>>]
\* stk::topology::QUAD_4_2D: side sideOrd joins the nodes sideOrd and sideOrd + 1
side_nodes(elem_nodes, sideOrd) ==
  <<elem_nodes[sideOrd + 1], elem_nodes[((sideOrd + 1) % 4) + 1]>>
\* the nodes all of which both processes hold
SharedNodes == SeqSet(ElemNodes[0]) \cap SeqSet(ElemNodes[1])
\* the side sideOrd of the element of p lies between the two elements
IsInteriorSide(p, sideOrd) == SeqSet(side_nodes(ElemNodes[p], sideOrd)) \subseteq SharedNodes

InitSide ==
  /\ SyncMesh
  /\ ret = Ret("construct", 0, "void")
  /\ \E graph \in BOOLEAN : \E elem_id \in [SideProcs -> ElemIds] :
       /\ elem_id[0] # elem_id[1]
       /\ kv = [graph |-> graph,
                elem_id |-> elem_id,
                side_id |-> [p \in SideProcs |-> 0],
                sideOrd |-> [p \in SideProcs |-> 0],
                sentity |-> [p \in SideProcs |-> NoEntity],
                pc |-> [p \in SideProcs |-> "none"]]

\* impl::side_id_formula
side_id_formula(elem_id, sideOrdinal) == 10 * elem_id + sideOrdinal + 1
\* SideIdChooser::get_chosen_side_id: the one id the two elements of an interior
\* side agree on, the smaller of the two formula values
get_chosen_side_id(p, sideOrdinal) ==
  IF IsInteriorSide(p, sideOrdinal)
  THEN SetMin({side_id_formula(kv.elem_id[s[1]], s[2]) :
                 s \in {t \in SideProcs \X (0 .. 3) : IsInteriorSide(t[1], t[2])}})
  ELSE side_id_formula(kv.elem_id[p], sideOrdinal)
\* BulkData::select_side_id on process p
select_side_id_by_formula(p, sideOrdinal) == side_id_formula(kv.elem_id[p], sideOrdinal)
select_side_id(p, sideOrdinal) ==
  IF kv.graph THEN get_chosen_side_id(p, sideOrdinal)
  ELSE side_id_formula(kv.elem_id[p], sideOrdinal)

\* BulkData::declare_element_side(elem, sideOrd, parts) on process p, its element
\* without a side so far: declare_element_side_with_id, create_and_connect_side
declare_element_side(p, sideOrd) ==
  /\ m_sync_state = MODIFIABLE
  /\ kv.pc[p] = "none"
  /\ kv' = [kv EXCEPT !.side_id[p] = select_side_id(p, sideOrd),
                      !.sideOrd[p] = sideOrd,
                      !.pc[p] = "created"]
  /\ ret' = Ret("declare_element_side", 0, "void")
  /\ UNCHANGED meshvars

\* the start of the modification end: the processes exchange the sides all of
\* whose nodes are shared (fill_sharing_data with the graph,
\* markEntitiesForResolvingSharingInfoUsingNodes without it)
communicate_shared_sides ==
  /\ \E p \in SideProcs : kv.pc[p] = "created"
  /\ \A p \in SideProcs : kv.pc[p] \in {"none", "created"}
  /\ kv' = [kv EXCEPT
       !.sentity = [p \in SideProcs |->
                      IF kv.pc[p] = "created" /\ IsInteriorSide(p, kv.sideOrd[p])
                      THEN shared_entity_type(kv.side_id[p],
                                              side_nodes(ElemNodes[p], kv.sideOrd[p]))
                      ELSE NoEntity],
       !.pc = [p \in SideProcs |-> "communicated"]]
  /\ ret' = Ret("communicate_shared_entity_info", 0, "void")
  /\ UNCHANGED meshvars

\* the ordinal of the element of p whose side has the nodes of the received side
local_side_ordinal(p, received) ==
  CHOOSE o \in 0 .. 3 : SeqSet(side_nodes(ElemNodes[p], o)) = SeqSet(received.nodes)

\* BulkData::resolve_parallel_side_connections on process p with what the other
\* process q sent; the owning process is the lower-ranked one
resolve_parallel_side_connections(p, q) ==
  LET received == kv.sentity[q]
      owningProc == SetMin(SideProcs)
      sideOrdinal == local_side_ordinal(p, received)
  IN IF received = NoEntity THEN kv' = [kv EXCEPT !.pc[p] = "resolved"]
     ELSE IF kv.side_id[p] = 0 \/ kv.sideOrd[p] # sideOrdinal
     THEN kv' = [kv EXCEPT !.side_id[p] = select_side_id(p, sideOrdinal),
                           !.sideOrd[p] = sideOrdinal,
                           !.pc[p] = "resolved"]
     ELSE kv' = [kv EXCEPT !.side_id[p] = IF p # owningProc THEN received.global_key ELSE @,
                           !.pc[p] = "resolved"]

\* BulkData::use_nodes_to_resolve_sharing on process p with what the other process
\* q sent: set_common_entity_key_and_fix_ordering_of_nodes_and_update_comm_map
use_nodes_to_resolve_sharing(p, q) ==
  LET mine == IF kv.sentity[p] = NoEntity \/ kv.sentity[q] = NoEntity THEN kv.sentity[p]
              ELSE unpackEntityFromOtherProcAndUpdateInfoIfSharedLocally(
                     p, kv.sentity[p], <<<<q, kv.sentity[q]>>>>)
  IN kv' = [kv EXCEPT !.sentity[p] = mine,
                      !.side_id[p] = IF mine = NoEntity THEN @ ELSE mine.global_key,
                      !.pc[p] = "resolved"]

\* BulkData::fill_shared_entities_of_rank_while_updating_sharing_info for the side
\* rank on process p
fill_shared_entities_of_rank_while_updating_sharing_info(p) ==
  /\ kv.pc[p] = "communicated"
  /\ \E q \in SideProcs \ {p} :
       IF kv.graph THEN resolve_parallel_side_connections(p, q)
       ELSE use_nodes_to_resolve_sharing(p, q)
  /\ ret' = Ret("fill_shared_entities_of_rank_while_updating_sharing_info", 0, "void")
  /\ UNCHANGED meshvars

NextSide ==
  \/ \E p \in SideProcs : \E sideOrd \in 0 .. 3 : declare_element_side(p, sideOrd)
  \/ communicate_shared_sides
  \/ \E p \in SideProcs : fill_shared_entities_of_rank_while_updating_sharing_info(p)

SpecSide == InitSide /\ [][NextSide]_vars

\* ================== BulkData::change_ghosting, internal_regenerate_aura (SpecGhosting)
\* Two processes, two nodes and one element. Each entity has one owner; a node may
\* be shared by both processes. One custom ghosting and the aura.
\*   kv.owner[k]  : parallel_owner_rank of the entity with key k
\*   kv.valid[p]  : the keys of the valid entities of process p
\*   kv.rel[p]    : the relations on p, pairs <<element key, node key>>
\*   kv.comm[p]   : the comm map of p, triples <<key, ghosting, process>>
\*   kv.regens    : the calls of internal_regenerate_aura since the last mutation
GProcs == {0, 1}
other_proc(p) == 1 - p
GhostNodes == {<<NODE_RANK, 1>>, <<NODE_RANK, 2>>}
GhostElems == {<<ELEM_RANK, 1>>}
GhostKeys == GhostNodes \cup GhostElems
\* the mesh data of all processes that the ghosting calls change
World == [valid |-> kv.valid, rel |-> kv.rel, comm |-> kv.comm]

InitGhosting ==
  /\ SyncMesh
  /\ ret = Ret("construct", 0, "void")
  /\ \E owner \in [GhostKeys -> GProcs] : \E shared \in SUBSET GhostNodes :
     \E nodes \in SUBSET GhostNodes \ {{}} :
       LET valid == [p \in GProcs |-> {k \in GhostKeys : owner[k] = p \/ k \in shared}]
       IN /\ \A e \in GhostElems : nodes \subseteq valid[owner[e]]
          /\ kv = [owner |-> owner,
                   valid |-> valid,
                   rel |-> [p \in GProcs |-> {r \in GhostElems \X nodes : owner[r[1]] = p}],
                   comm |-> [p \in GProcs |-> {<<k, "SHARED", other_proc(p)>> : k \in shared}],
                   regens |-> 0]

in_shared(W, p, k, proc) == <<k, "SHARED", proc>> \in W.comm[p]
in_ghost(W, p, ghost, k, proc) == <<k, ghost, proc>> \in W.comm[p]
in_send_ghost(W, p, ghost, k, proc) == kv.owner[k] = p /\ <<k, ghost, proc>> \in W.comm[p]
in_receive_ghost_of(W, p, ghost, k) == kv.owner[k] # p /\ <<k, ghost, kv.owner[k]>> \in W.comm[p]
\* EntityComm::isGhost: the entity has a comm entry of a ghosting other than SHARED
isGhost(W, p, k) == \E c \in W.comm[p] : c[1] = k /\ c[2] # "SHARED"
\* the entities related to k on process p, of lower and of higher rank
lower_rank_relations(W, p, k) == {r[2] : r \in {x \in W.rel[p] : x[1] = k}}
higher_rank_relations(W, p, k) == {r[1] : r \in {x \in W.rel[p] : x[2] = k}}

\* impl::has_upward_send_ghost_connectivity
has_upward_send_ghost_connectivity(W, p, ghost, proc, k) ==
  \E u \in higher_rank_relations(W, p, k) : in_send_ghost(W, p, ghost, u, proc)
\* impl::has_upward_recv_ghost_connectivity
has_upward_recv_ghost_connectivity(W, p, ghost, k) ==
  \E u \in higher_rank_relations(W, p, k) : in_receive_ghost_of(W, p, ghost, u)

\* internal_destroy_entity of the ghost k on process p; refused while an entity of
\* higher rank is related to it
internal_destroy_ghost(W, p, k) ==
  IF higher_rank_relations(W, p, k) # {} THEN W
  ELSE [W EXCEPT !.valid[p] = @ \ {k}, !.rel[p] = {r \in @ : r[1] # k}]

\* BulkData::ghost_entities_and_fields: every process sends the entities of
\* sendGhosts to the other process, which unpacks them in entity-rank order
ghost_entities_and_fields_between(W, ghost, sendGhosts, isFullRegen) ==
  LET sent == [p \in GProcs |->
                 {k \in sendGhosts[p] : isFullRegen \/ ~in_ghost(W, p, ghost, k, other_proc(p))}]
      recv == [q \in GProcs |-> sent[other_proc(q)]]
      valid1 == [q \in GProcs |-> W.valid[q] \cup recv[q]]
  IN [valid |-> valid1,
      comm |-> [p \in GProcs |->
                  W.comm[p] \cup {<<k, ghost, other_proc(p)>> : k \in sent[p]}
                            \cup {<<k, ghost, kv.owner[k]>> : k \in recv[p]}],
      rel |-> [q \in GProcs |->
                 W.rel[q] \cup {r \in W.rel[other_proc(q)] :
                                  \/ r[1] \in recv[q] /\ r[2] \in valid1[q]
                                  \/ r[2] \in recv[q] /\ r[1] \in W.valid[q]}]]

\* ---- change_ghosting of the custom ghosting
\* verify_and_filter_add_send
verify_and_filter_add_send(W, p, add_send) ==
  {k \in add_send : ~in_send_ghost(W, p, "CUSTOM", k, other_proc(p))}
\* verify_and_filter_remove_receive
verify_and_filter_remove_receive(W, p, remove_receive) ==
  {k \in remove_receive : in_receive_ghost_of(W, p, "CUSTOM", k)}
\* the closure of add_send on p that impl::OnlyGhosts lets through, without what
\* is already sent
newSendGhosts(W, p, add_send) ==
  {k \in add_send \cup UNION {lower_rank_relations(W, p, a) : a \in add_send} :
     /\ k \in W.valid[p]
     /\ kv.owner[k] # other_proc(p)
     /\ ~in_send_ghost(W, p, "CUSTOM", k, other_proc(p))}
\* BulkData::filter_ghosting_remove_receives: removeRecvGhosts
filter_ghosting_remove_receives(W, p, remove_receive) ==
  LET recvGhosts == {k \in W.valid[p] : /\ isGhost(W, p, k)
                                        /\ k \notin remove_receive
                                        /\ in_receive_ghost_of(W, p, "CUSTOM", k)}
      ghostStatus == recvGhosts \cup
                     {r \in UNION {lower_rank_relations(W, p, e) : e \in recvGhosts} :
                        r \in W.valid[p] /\ in_receive_ghost_of(W, p, "CUSTOM", r)}
  IN {k \in remove_receive : in_receive_ghost_of(W, p, "CUSTOM", k) /\ k \notin ghostStatus}

RECURSIVE EraseSendGhosts(_, _, _)
\* the loop over removeSendGhosts on p, from the highest key down
EraseSendGhosts(W, p, removeSendGhosts) ==
  IF removeSendGhosts = {} THEN W
  ELSE LET k == CHOOSE x \in removeSendGhosts :
                  \A y \in removeSendGhosts : y = x \/ TupleLess(y, x)
           W1 == IF has_upward_send_ghost_connectivity(W, p, "CUSTOM", other_proc(p), k)
                 THEN W
                 ELSE [W EXCEPT !.comm[p] = @ \ {<<k, "CUSTOM", other_proc(p)>>}]
       IN EraseSendGhosts(W1, p, removeSendGhosts \ {k})

\* the loop over removeRecvGhosts on p without the destruction of the entities
\* whose comm map has become empty
EraseRecvGhostsFromCommMap(W, p, removeRecvGhosts) ==
  [W EXCEPT !.comm[p] =
     {c \in @ : ~(/\ c[1] \in removeRecvGhosts /\ c[2] = "CUSTOM"
                  /\ ~has_upward_recv_ghost_connectivity(W, p, "CUSTOM", c[1]))}]

\* the processes on which the ThrowRequireMsg of the loop over removeRecvGhosts
\* has been raised
FailedToDestroy(W) == IF "failed" \in DOMAIN W THEN W.failed ELSE {}

RECURSIVE EraseRecvGhosts(_, _, _)
\* the loop over removeRecvGhosts on p, from the highest key down; it ends in
\* "FAILED to destroy remove-recv-ghost entity" when internal_destroy_entity refuses
EraseRecvGhosts(W, p, removeRecvGhosts) ==
  IF removeRecvGhosts = {} THEN W
  ELSE LET k == CHOOSE x \in removeRecvGhosts :
                  \A y \in removeRecvGhosts : y = x \/ TupleLess(y, x)
           erased == [W EXCEPT !.comm[p] = {c \in @ : ~(c[1] = k /\ c[2] = "CUSTOM")}]
           kept == has_upward_recv_ghost_connectivity(W, p, "CUSTOM", k)
           comm_map_empty == ~\E c \in erased.comm[p] : c[1] = k
           W1 == IF kept THEN W
                 ELSE IF ~comm_map_empty THEN erased
                 ELSE internal_destroy_ghost(erased, p, k)
       IN IF ~kept /\ comm_map_empty /\ higher_rank_relations(erased, p, k) # {}
          THEN [valid |-> erased.valid, rel |-> erased.rel, comm |-> erased.comm,
                failed |-> FailedToDestroy(W) \cup {p}]
          ELSE EraseRecvGhosts(W1, p, removeRecvGhosts \ {k})

\* BulkData::internal_change_ghosting(ghosting, add_send, remove_receive)
internal_change_ghosting(W, add_send, remove_receive) ==
  LET sends == [p \in GProcs |-> newSendGhosts(W, p, add_send[p])]
      removeRecvGhosts == [p \in GProcs |->
                             filter_ghosting_remove_receives(W, p, remove_receive[p])]
      \* impl::comm_sync_send_recv: the owner learns what its receiver removes
      removeSendGhosts == [p \in GProcs |-> removeRecvGhosts[other_proc(p)]]
      W1 == ghost_entities_and_fields_between(W, "CUSTOM", sends, FALSE)
      W2 == EraseSendGhosts(EraseSendGhosts(W1, 0, removeSendGhosts[0]), 1, removeSendGhosts[1])
  IN EraseRecvGhosts(EraseRecvGhosts(W2, 0, removeRecvGhosts[0]), 1, removeRecvGhosts[1])

\* BulkData::change_ghosting(ghosts, add_send, remove_receive), collective; the
\* entities of add_send go to the other process
change_ghosting(add_send, remove_receive) ==
  LET W == World
      add_send_is_owned == \A p \in GProcs : \A k \in add_send[p] : kv.owner[k] = p
      filtered_add_send == [p \in GProcs |-> verify_and_filter_add_send(W, p, add_send[p])]
      filtered_remove_receive ==
        [p \in GProcs |-> verify_and_filter_remove_receive(W, p, remove_receive[p])]
      need_to_change_ghosting ==
        \E p \in GProcs : filtered_add_send[p] # {} \/ filtered_remove_receive[p] # {}
      W1 == internal_change_ghosting(W, filtered_add_send, filtered_remove_receive)
  IN /\ \A p \in GProcs : add_send[p] \subseteq kv.valid[p] /\ remove_receive[p] \subseteq kv.valid[p]
     /\ \E p \in GProcs : add_send[p] # {} \/ remove_receive[p] # {}
     /\ IF ~add_send_is_owned
        THEN /\ kv' = [kv EXCEPT !.regens = 0]
             /\ ret' = Ret("change_ghosting", 0, "throw")
        ELSE /\ kv' = IF need_to_change_ghosting
                      THEN [kv EXCEPT !.valid = W1.valid, !.rel = W1.rel, !.comm = W1.comm,
                                      !.regens = 0]
                      ELSE [kv EXCEPT !.regens = 0]
             /\ ret' = Ret("change_ghosting", 0,
                           IF need_to_change_ghosting /\ FailedToDestroy(W1) # {}
                           THEN "throw" ELSE "void")
     /\ UNCHANGED meshvars

\* ---- the aura
\* BulkData::fill_list_of_entities_to_send_for_aura_ghosting on p: the owned
\* entities related to a node shared with the other process, unless shared with it
fill_list_of_entities_to_send_for_aura_ghosting(W, p) ==
  {u \in UNION {higher_rank_relations(W, p, n) : n \in {k \in GhostNodes \cap W.valid[p] :
                                             in_shared(W, p, k, other_proc(p))}} :
     kv.owner[u] = p /\ ~in_shared(W, p, u, other_proc(p))}
\* the closure that internal_change_ghosting adds with impl::OnlyGhostsEPM
aura_add_send(W, p) ==
  LET send == fill_list_of_entities_to_send_for_aura_ghosting(W, p)
  IN send \cup {c \in UNION {lower_rank_relations(W, p, u) : u \in send} :
                  /\ c \in W.valid[p]
                  /\ kv.owner[c] # other_proc(p)
                  /\ ~in_shared(W, p, c, other_proc(p))}

\* remove_recv of internal_change_ghosting for the comm list entry k of p
remove_recv_always(W, p, k, ghostStatus) ==
  kv.owner[k] # p /\ in_receive_ghost_of(W, p, "AURA", k)
remove_recv(W, p, k, ghostStatus) ==
  kv.owner[k] # p /\ k \notin ghostStatus /\ in_receive_ghost_of(W, p, "AURA", k)

RECURSIVE RemoveAuraGhosts(_, _, _, _, _)
\* the loop of internal_change_ghosting over the comm list of p in reverse: the
\* ghosts of `entries`, from the highest key down
RemoveAuraGhosts(W, p, entries, add_send, ghostStatus) ==
  IF entries = {} THEN W
  ELSE LET k == CHOOSE x \in entries : \A y \in entries : y = x \/ TupleLess(y, x)
           is_owner == kv.owner[k] = p
           rm == remove_recv(W, p, k, ghostStatus)
           W1 == IF k \notin W.valid[p] THEN W
                 ELSE IF is_owner
                 THEN [W EXCEPT !.comm[p] = {c \in @ : ~(c[1] = k /\ c[2] = "AURA"
                                                        /\ k \notin add_send)}]
                 ELSE IF rm
                 THEN [W EXCEPT !.comm[p] = {c \in @ : ~(c[1] = k /\ c[2] = "AURA")}]
                 ELSE W
           W2 == IF k \in W.valid[p] /\ rm /\ ~(\E c \in W1.comm[p] : c[1] = k)
                 THEN internal_destroy_ghost(W1, p, k) ELSE W1
       IN RemoveAuraGhosts(W2, p, entries \ {k}, add_send, ghostStatus)

\* BulkData::internal_regenerate_aura on all processes
regenerate_aura(W) ==
  LET add_send == [p \in GProcs |-> aura_add_send(W, p)]
      \* impl::comm_sync_aura_send_recv: what the other process is going to send
      ghostStatus == [p \in GProcs |-> add_send[other_proc(p)]]
      ghosts == [p \in GProcs |-> {k \in GhostKeys : isGhost(W, p, k)}]
      W1 == RemoveAuraGhosts(RemoveAuraGhosts(W, 0, ghosts[0], add_send[0], ghostStatus[0]),
                             1, ghosts[1], add_send[1], ghostStatus[1])
      sendGhosts == [p \in GProcs |->
                       {k \in add_send[p] : ~in_ghost(W, p, "AURA", k, other_proc(p))}]
  IN ghost_entities_and_fields_between(W1, "AURA", sendGhosts, TRUE)

internal_regenerate_aura ==
  /\ kv.regens < 2
  /\ LET W1 == regenerate_aura(World)
     IN kv' = [kv EXCEPT !.valid = W1.valid, !.rel = W1.rel, !.comm = W1.comm,
                         !.regens = @ + 1]
  /\ ret' = Ret("internal_regenerate_aura", 0, "void")
  /\ UNCHANGED meshvars

\* ---- a modification cycle of the owner p of the element e
\* BulkData::internal_resolve_ghosted_modify_delete for the entities `modified`
\* that p owns and modified: the aura entries go on both processes, a ghost that
\* was in the aura only is destroyed
RECURSIVE ResolveGhostedModify(_, _, _)
ResolveGhostedModify(W, p, modified) ==
  IF modified = {} THEN W
  ELSE LET k == CHOOSE x \in modified : \A y \in modified : y = x \/ TupleLess(y, x)
           q == other_proc(p)
           isAuraGhost == <<k, "AURA", p>> \in W.comm[q]
           isCustomGhost == <<k, "CUSTOM", p>> \in W.comm[q]
           W1 == [W EXCEPT !.comm[q] = @ \ {<<k, "AURA", p>>},
                           !.comm[p] = @ \ {<<k, "AURA", q>>}]
           W2 == IF isAuraGhost /\ ~isCustomGhost THEN internal_destroy_ghost(W1, q, k) ELSE W1
       IN ResolveGhostedModify(W2, p, modified \ {k})

\* modification_begin, declare_relation(e, n) on the owner p of e, modification_end
declare_relation_modification_end(p, e, n) ==
  /\ kv.owner[e] = p
  /\ n \in kv.valid[p]
  /\ <<e, n>> \notin kv.rel[p]
  /\ LET W == [World EXCEPT !.rel[p] = @ \cup {<<e, n>>}]
         W1 == ResolveGhostedModify(W, p, {k \in {e, n} : kv.owner[k] = p})
         W2 == regenerate_aura(W1)
     IN kv' = [kv EXCEPT !.valid = W2.valid, !.rel = W2.rel, !.comm = W2.comm, !.regens = 1]
  /\ ret' = Ret("modification_end", 0, "void")
  /\ UNCHANGED meshvars

\* the entities that p holds and does not own: shared with p or ghosted to p
NotOwned(p) == {k \in kv.valid[p] : kv.owner[k] # p}

NextGhosting ==
  \/ \E sender \in GProcs : \E add_send \in SUBSET kv.valid[sender] :
       \E receiver \in GProcs : \E remove_receive \in SUBSET NotOwned(receiver) :
         change_ghosting([p \in GProcs |-> IF p = sender THEN add_send ELSE {}],
                         [p \in GProcs |-> IF p = receiver THEN remove_receive ELSE {}])
  \/ internal_regenerate_aura
  \/ \E p \in GProcs : \E e \in GhostElems : \E n \in GhostNodes :
       declare_relation_modification_end(p, e, n)

SpecGhosting == InitGhosting /\ [][NextGhosting]_vars

\* ============ the unpack loop of BulkData::ghost_entities_and_fields (SpecUnpack)
\* One receiving process and the buffers the other processes sent it. The mesh has
\* two nodes, a face on the first node and an element on the face and both nodes.
\*   kv.buf[p]    : what is left of the receive buffer from process p, keys in the
\*                  order in which p packed them
\*   kv.valid     : the keys of the entities the receiver holds
\*   kv.rank, kv.p: the position of the two loops
\*   kv.order     : the keys unpacked so far, in the order of unpacking
\*   kv.missing   : the relations unpacked whose lower-rank entity the receiver did
\*                  not hold at that moment
UnpackKeys == {<<NODE_RANK, 1>>, <<NODE_RANK, 2>>, <<FACE_RANK, 1>>, <<ELEM_RANK, 1>>}
\* the relations pack_entity_info packs for key: its lower-rank entities
PackedRelations(key) ==
  IF key = <<ELEM_RANK, 1>> THEN {<<NODE_RANK, 1>>, <<NODE_RANK, 2>>, <<FACE_RANK, 1>>}
  ELSE IF key = <<FACE_RANK, 1>> THEN {<<NODE_RANK, 1>>}
  ELSE {}
rank_count == ELEM_RANK + 1

InitUnpack ==
  /\ SyncMesh
  /\ ret = Ret("construct", 0, "void")
  /\ \E receiver \in Procs : \E owner \in [UnpackKeys -> Procs \ {receiver}] :
     \E sendGhosts \in SUBSET UnpackKeys : \E valid \in SUBSET UnpackKeys :
       \* the closure of what is sent is sent with it or is on the receiver
       /\ \A k \in sendGhosts : PackedRelations(k) \subseteq sendGhosts \cup valid
       /\ \A k \in valid : PackedRelations(k) \subseteq valid
       /\ kv = [receiver |-> receiver,
                \* sendGhosts is a std::set ordered by EntityLess
                buf |-> [p \in Procs |-> SortedSeq({k \in sendGhosts : owner[k] = p})],
                valid |-> valid,
                rank |-> 0,
                p |-> 0,
                order |-> <<>>,
                missing |-> {}]

\* the test of the rank the buffer holds next: unpack only the current rank
is_current_rank_or_not(this_rank, rank) == TRUE
is_current_rank(this_rank, rank) == this_rank = rank

\* one pass of the while loop: unpack the next entity of the buffer of kv.p
unpack_entity_info ==
  /\ kv.rank < rank_count
  /\ kv.buf[kv.p] # <<>>
  /\ is_current_rank(Head(kv.buf[kv.p])[1], kv.rank)
  /\ LET key == Head(kv.buf[kv.p])
     IN kv' = [kv EXCEPT !.buf[kv.p] = Tail(@),
                         !.valid = @ \cup {key},
                         !.order = Append(@, key),
                         !.missing = @ \cup {<<key, t>> : t \in PackedRelations(key) \ kv.valid}]
  /\ ret' = Ret("ghost_entities_and_fields", 0, "unpack")
  /\ UNCHANGED meshvars

\* the while loop ends: the buffer is empty or holds another rank next; on to the
\* next buffer, after the last buffer on to the next rank
next_recv_buffer ==
  /\ kv.rank < rank_count
  /\ IF kv.buf[kv.p] = <<>> THEN TRUE ELSE ~is_current_rank(Head(kv.buf[kv.p])[1], kv.rank)
  /\ kv' = IF kv.p + 1 < NumProcs THEN [kv EXCEPT !.p = @ + 1]
           ELSE [kv EXCEPT !.p = 0, !.rank = @ + 1]
  /\ ret' = Ret("ghost_entities_and_fields", 0, "break")
  /\ UNCHANGED meshvars

NextUnpack ==
  \/ unpack_entity_info
  \/ next_recv_buffer

SpecUnpack == InitUnpack /\ [][NextUnpack]_vars

\* ---------------------------------------------------------------- SpecShare
\* Two processes in one modification cycle.  Every node of ShareNodes is created
\* in this cycle on the processes that hold it (state Created, owner the creating
\* process), so resolve_ownership_of_modified_entities has nothing to send.  Each
\* process has one locally owned element, connected to the nodes elem[p].
\* kv.comm[p][n] holds the processes of the SHARED comm entries of node n on p.
ShareNodes == {1, 2}
NOT_MARKED == "NOT_MARKED"
IS_SHARED == "IS_SHARED"
NOT_SHARED == "NOT_SHARED"
ShareRankVectors == {{NODE_RANK}, {EDGE_RANK}, {NODE_RANK, EDGE_RANK}}
InitShare ==
  /\ m_sync_state = MODIFIABLE
  /\ m_entity_repo = [k \in Keys |-> 0]
  /\ m_size = 1
  /\ m_entity_keys = [o \in Offsets |-> InvalidKey]
  /\ m_mesh_indexes = [o \in Offsets |-> {}]
  /\ m_entity_states = [o \in Offsets |-> Created]
  /\ m_conn = [o \in Offsets |-> {}]
  /\ m_deleted_entities = <<>>
  /\ m_deleted_entities_current_modification_cycle = <<>>
  /\ m_ghost_reuse_map = [k \in Keys |-> 0]
  /\ ret = Ret("construct", 0, "void")
  /\ \E valid \in [GProcs -> SUBSET ShareNodes] : \E elem \in [GProcs -> SUBSET ShareNodes] :
       /\ \A p \in GProcs : elem[p] \subseteq valid[p]
       /\ \A n \in ShareNodes : \E p \in GProcs : n \in valid[p]
       /\ kv = [valid |-> valid,
                elem |-> elem,
                owner |-> [p \in GProcs |-> [n \in ShareNodes |-> p]],
                parts |-> [p \in GProcs |-> [n \in ShareNodes |->
                             IF n \in valid[p] THEN {universal_part, locally_owned_part}
                             ELSE {}]],
                comm |-> [p \in GProcs |-> [n \in ShareNodes |-> {}]],
                mark |-> [p \in GProcs |-> [n \in ShareNodes |-> NOT_MARKED]],
                sync |-> MODIFIABLE,
                ranks |-> {},
                pc |-> "run"]

\* add_node_sharing(node, sharing_proc) on process p: no test of the modification
\* state; the SHARED comm entry is inserted, the node is marked, its parts stay
add_node_sharing(p, node, sharing_proc) ==
  /\ kv.pc = "run"
  /\ node \in kv.valid[p]
  /\ kv' = [kv EXCEPT !.mark[p][node] = IS_SHARED,
                      !.comm[p][node] = @ \cup {sharing_proc}]
  /\ ret' = Ret("add_node_sharing", node, "void")
  /\ UNCHANGED meshvars

\* remove_entities_from_sharing({(node, proc)}) on process p
remove_entities_from_sharing(p, node, proc) ==
  /\ kv.pc = "run"
  /\ node \in kv.valid[p]
  /\ LET comm == kv.comm[p][node] \ {proc}
     IN kv' = [kv EXCEPT
          !.comm[p][node] = comm,
          !.parts[p][node] = IF comm = {} THEN @ \ {globally_shared_part} ELSE @,
          !.mark[p][node] = IF comm = {} THEN NOT_SHARED ELSE @]
  /\ ret' = Ret("remove_entities_from_sharing", node, "void")
  /\ UNCHANGED meshvars

\* gather_shared_nodes on process p
gather_shared_nodes(p) == {n \in kv.valid[p] : kv.mark[p][n] = IS_SHARED}
\* gather_shared_nodes that takes every node with a SHARED comm entry
gather_nodes_in_shared(p) == {n \in kv.valid[p] : kv.comm[p][n] # {}}

\* internal_update_sharing_comm_map_and_fill_list_modified_shared_entities_of_rank
\* over the rank vector: the nodes are gathered only for NODE_RANK; the mesh has
\* no edge or face, so the other ranks add nothing
shared_modified_of_ranks(p, ranks) ==
  IF NODE_RANK \in ranks THEN gather_shared_nodes(p) ELSE {}

\* the owner after move_entities_to_proper_part_ownership (every node is Created)
share_new_owner(p, n) ==
  IF kv.owner[p][n] = p
  THEN determine_new_owner_loop(p, Ascending(kv.comm[p][n]))
  ELSE kv.owner[p][n]
\* the parts after move_entities_to_proper_part_ownership
share_new_parts(p, n) ==
  IF share_new_owner(p, n) # p
  THEN (kv.parts[p][n] \cup {globally_shared_part}) \ {locally_owned_part}
  ELSE IF kv.comm[p][n] # {}
  THEN kv.parts[p][n] \cup {globally_shared_part}
  ELSE kv.parts[p][n] \ {globally_shared_part}
\* owned_closure(entity) after the owner is set
share_owned_closure(p, n) == share_new_owner(p, n) = p \/ n \in kv.elem[p]

\* modification_end_for_entity_creation(entity_rank_vector) on both processes of a
\* build whose mesh consistency check is off: internal_resolve_parallel_create
\* (the error flag of move_entities_to_proper_part_ownership is reduced over the
\* processes and thrown on all of them), then internal_finish_modification_end
modification_end_for_entity_creation(ranks) ==
  /\ kv.pc = "run"
  /\ IF kv.sync = SYNCHRONIZED
     THEN /\ kv' = kv
          /\ ret' = Ret("modification_end_for_entity_creation", 0, "false")
     ELSE LET sm(p) == shared_modified_of_ranks(p, ranks)
              error_flag == \E p \in GProcs : \E n \in sm(p) : ~share_owned_closure(p, n)
          IN /\ kv' = [kv EXCEPT
                  !.owner = [p \in GProcs |-> [n \in ShareNodes |->
                               IF n \in sm(p) THEN share_new_owner(p, n) ELSE kv.owner[p][n]]],
                  !.parts = [p \in GProcs |-> [n \in ShareNodes |->
                               IF n \in sm(p) THEN share_new_parts(p, n) ELSE kv.parts[p][n]]],
                  !.mark = IF error_flag THEN @
                           ELSE [p \in GProcs |-> [n \in ShareNodes |-> NOT_MARKED]],
                  !.sync = IF error_flag THEN @ ELSE SYNCHRONIZED,
                  !.ranks = ranks,
                  !.pc = IF error_flag THEN "throw" ELSE "run"]
             /\ ret' = Ret("modification_end_for_entity_creation", 0,
                           IF error_flag THEN "throw" ELSE "true")
  /\ UNCHANGED meshvars

NextShare ==
  \/ \E p \in GProcs, n \in ShareNodes : add_node_sharing(p, n, other_proc(p))
  \/ \E p \in GProcs, n \in ShareNodes : remove_entities_from_sharing(p, n, other_proc(p))
  \/ \E ranks \in ShareRankVectors : modification_end_for_entity_creation(ranks)

SpecShare == InitShare /\ [][NextShare]_vars

\* ------------------------------------------------------------- SpecCommList
\* The entity comm list of process 0 of a run with the processes 0, 1 and 2.
\* Process 1 shares entities with process 0, both receive and send its ghosts.
\* kv.list holds the keys of m_entity_comm_list in order, kv.comm[k] the comm
\* entries <<ghosting ordinal, process>> of key k, kv.owned the keys process 0 owns.
CommKeys == {<<NODE_RANK, 1>>, <<NODE_RANK, 2>>, <<FACE_RANK, 1>>}
SHARED_ORDINAL == 0
AURA_ORDINAL == 1
CUSTOM_ORDINAL == 2
CommProcs == {1, 2}
\* the processes that share entities with process 0
SharingProcs == {1}
CommInfos == ({SHARED_ORDINAL} \X SharingProcs) \cup ({CUSTOM_ORDINAL} \X CommProcs)
SeqsUpTo(S, n) == UNION {[1 .. m -> S] : m \in 0 .. n}

RECURSIVE InsertSorted(_, _)
RECURSIVE std_sort(_)
RECURSIVE std_inplace_merge(_, _)
RECURSIVE std_unique(_)
InsertSorted(s, x) ==
  IF s = <<>> THEN <<x>>
  ELSE IF TupleLess(x, Head(s)) THEN <<x>> \o s
  ELSE <<Head(s)>> \o InsertSorted(Tail(s), x)
\* std::sort of a range
std_sort(s) == IF s = <<>> THEN <<>> ELSE InsertSorted(std_sort(Tail(s)), Head(s))
\* std::inplace_merge of two consecutive ranges
std_inplace_merge(a, b) ==
  IF a = <<>> THEN b
  ELSE IF b = <<>> THEN a
  ELSE IF TupleLess(Head(b), Head(a)) THEN <<Head(b)>> \o std_inplace_merge(a, Tail(b))
  ELSE <<Head(a)>> \o std_inplace_merge(Tail(a), b)
\* erase(std::unique(begin, end), end): of equal neighbours the first is kept
std_unique(s) ==
  IF Len(s) <= 1 THEN s
  ELSE IF s[1] = s[2] THEN std_unique(Tail(s))
  ELSE <<Head(s)>> \o std_unique(Tail(s))
\* std::lower_bound(begin, end, key): the first position whose key is not below key
lower_bound(list, key) ==
  IF \E i \in 1 .. Len(list) : ~TupleLess(list[i], key)
  THEN CHOOSE i \in 1 .. Len(list) :
         /\ ~TupleLess(list[i], key)
         /\ \A j \in 1 .. (i - 1) : TupleLess(list[j], key)
  ELSE Len(list) + 1

InitCommList ==
  /\ m_sync_state = MODIFIABLE
  /\ m_entity_repo = [k \in Keys |-> 0]
  /\ m_size = 1
  /\ m_entity_keys = [o \in Offsets |-> InvalidKey]
  /\ m_mesh_indexes = [o \in Offsets |-> {}]
  /\ m_entity_states = [o \in Offsets |-> Created]
  /\ m_conn = [o \in Offsets |-> {}]
  /\ m_deleted_entities = <<>>
  /\ m_deleted_entities_current_modification_cycle = <<>>
  /\ m_ghost_reuse_map = [k \in Keys |-> 0]
  /\ ret = Ret("construct", 0, "void")
  /\ \E owned \in SUBSET CommKeys :
       kv = [owned |-> owned,
             comm |-> [k \in CommKeys |-> {}],
             list |-> <<>>]

\* entity_comm_list_insert(node)
entity_comm_list_insert(list, key) ==
  LET lb_itr == lower_bound(list, key)
  IN IF lb_itr = Len(list) + 1 \/ list[lb_itr] # key
     THEN SubSeq(list, 1, lb_itr - 1) \o <<key>> \o SubSeq(list, lb_itr, Len(list))
     ELSE list

\* add_comm_list_entries_for_entities that only appends the entities
append_comm_list_entries_for_entities(list, sharedModifiedEntities) ==
  list \o sharedModifiedEntities
\* add_comm_list_entries_for_entities(sharedModifiedEntities): the keys are pushed
\* back, the new tail is sorted and merged into the old list, duplicates are erased
add_comm_list_entries_for_entities(list, sharedModifiedEntities) ==
  std_unique(std_inplace_merge(list, std_sort(sharedModifiedEntities)))

\* the end of ghost_entities_and_fields: `pushed` are the keys pushed back by the
\* send loop and the unpack loop
sort_and_merge_new_ghosts(list, pushed) ==
  IF pushed # <<>> THEN std_unique(std_inplace_merge(list, std_sort(pushed))) ELSE list

\* delete_unneeded_entries_from_the_comm_list after the keys of the entries without
\* comm info are set to EntityKey(): std::remove_if keeps the order of the others
delete_unneeded_entries_from_the_comm_list(list, comm) ==
  SelectSeq(list, LAMBDA k : comm[k] # {})

\* add_node_sharing(node, sharing_proc), its comm map and comm list part
add_node_sharing_to_comm_list(node, sharing_proc) ==
  /\ node[1] = NODE_RANK
  /\ kv' = [kv EXCEPT !.comm[node] = @ \cup {<<SHARED_ORDINAL, sharing_proc>>},
                      !.list = entity_comm_list_insert(@, node)]
  /\ ret' = Ret("add_node_sharing", 0, "void")
  /\ UNCHANGED meshvars

\* set_shared_owned_parts_and_ownership_on_comm_data(shared_modified): the SHARED
\* entries are inserted, the entities are sorted and made unique, then added
set_shared_owned_parts_and_ownership_on_comm_data(shared_modified) ==
  /\ LET modified_entities ==
           SortedSeq({shared_modified[i][1] : i \in 1 .. Len(shared_modified)})
     IN kv' = [kv EXCEPT
          !.comm = [k \in CommKeys |->
                      @[k] \cup {<<SHARED_ORDINAL, shared_modified[i][2]>> :
                                   i \in {j \in 1 .. Len(shared_modified) :
                                            shared_modified[j][1] = k}}],
          !.list = add_comm_list_entries_for_entities(@, modified_entities)]
  /\ ret' = Ret("set_shared_owned_parts_and_ownership_on_comm_data", 0, "void")
  /\ UNCHANGED meshvars

\* internal_resolve_parallel_create, its comm list part: shared_modified holds the
\* nodes marked by add_node_sharing (`nodes`) and the edges and faces found shared
\* with process proc (`sides`, their sharing info is inserted before), sorted
resolve_parallel_create_comm_list(nodes, sides, proc) ==
  /\ \A k \in nodes : k[1] = NODE_RANK /\ \E i \in SharingProcs : <<SHARED_ORDINAL, i>> \in kv.comm[k]
  /\ \A k \in sides : k[1] \in {EDGE_RANK, FACE_RANK}
  /\ LET comm == [k \in CommKeys |->
                   IF k \in sides THEN kv.comm[k] \cup {<<SHARED_ORDINAL, proc>>}
                   ELSE kv.comm[k]]
         shared_modified == SortedSeq(nodes \cup sides)
     IN kv' = [kv EXCEPT
          !.comm = comm,
          !.list = delete_unneeded_entries_from_the_comm_list(
                     add_comm_list_entries_for_entities(@, shared_modified), comm)]
  /\ ret' = Ret("internal_resolve_parallel_create", 0, "void")
  /\ UNCHANGED meshvars

\* ghost_entities_and_fields(ghosting, sendGhosts, isFullRegen) of the custom
\* ghosting, with the ghosts `received` unpacked from their owner `from`
ghost_entities_and_fields_comm_list(sendGhosts, isFullRegen, received, from) ==
  /\ \A s \in sendGhosts : s[1] \in kv.owned
  /\ received \cap kv.owned = {}
  /\ LET sends == SortedSeq({<<s[1][1], s[1][2], s[2]>> : s \in
                               {t \in sendGhosts :
                                  isFullRegen \/ <<CUSTOM_ORDINAL, t[2]>> \notin kv.comm[t[1]]}})
         recvs == SortedSeq({k \in received : <<CUSTOM_ORDINAL, from>> \notin kv.comm[k]})
         pushed == [i \in 1 .. Len(sends) |-> <<sends[i][1], sends[i][2]>>] \o recvs
     IN kv' = [kv EXCEPT
          !.comm = [k \in CommKeys |->
                      @[k] \cup {<<CUSTOM_ORDINAL, s[2]>> : s \in {t \in sendGhosts : t[1] = k}}
                           \cup (IF k \in received THEN {<<CUSTOM_ORDINAL, from>>} ELSE {})],
          !.list = sort_and_merge_new_ghosts(@, pushed)]
  /\ ret' = Ret("ghost_entities_and_fields", 0, "void")
  /\ UNCHANGED meshvars

\* internal_change_ghosting, its removal part: the comm entries of the custom
\* ghosting in `removed` are erased, then the entries left without comm info
erase_ghosting_comm_entries(removed) ==
  /\ removed # {}
  /\ \A r \in removed : r[2][1] = CUSTOM_ORDINAL /\ r[2] \in kv.comm[r[1]]
  /\ LET comm == [k \in CommKeys |-> kv.comm[k] \ {r[2] : r \in {t \in removed : t[1] = k}}]
     IN kv' = [kv EXCEPT !.comm = comm,
                         !.list = delete_unneeded_entries_from_the_comm_list(@, comm)]
  /\ ret' = Ret("internal_change_ghosting", 0, "void")
  /\ UNCHANGED meshvars

\* delete_sides_on_all_procs(deletedSides): entity_comm_map_clear of every side,
\* then update_comm_list_based_on_changes_in_comm_map
delete_sides_on_all_procs(deletedSides) ==
  /\ deletedSides # {}
  /\ \A k \in deletedSides : k[1] = FACE_RANK /\ kv.comm[k] # {}
  /\ LET comm == [k \in CommKeys |-> IF k \in deletedSides THEN {} ELSE kv.comm[k]]
     IN kv' = [kv EXCEPT !.comm = comm,
                         !.list = delete_unneeded_entries_from_the_comm_list(@, comm)]
  /\ ret' = Ret("delete_sides_on_all_procs", 0, "void")
  /\ UNCHANGED meshvars

NextCommList ==
  \/ \E node \in CommKeys, proc \in SharingProcs : add_node_sharing_to_comm_list(node, proc)
  \/ \E sm \in SeqsUpTo(CommKeys \X SharingProcs, MaxCommEntities) :
       set_shared_owned_parts_and_ownership_on_comm_data(sm)
  \/ \E nodes \in SUBSET {k \in CommKeys : k[1] = NODE_RANK},
        sides \in SUBSET {k \in CommKeys : k[1] # NODE_RANK}, proc \in SharingProcs :
       resolve_parallel_create_comm_list(nodes, sides, proc)
  \/ \E sendGhosts \in SUBSET (kv.owned \X CommProcs), isFullRegen \in BOOLEAN,
        received \in SUBSET (CommKeys \ kv.owned), from \in CommProcs :
       /\ Cardinality(sendGhosts) <= MaxCommEntities
       /\ Cardinality(received) <= MaxCommEntities
       /\ ghost_entities_and_fields_comm_list(sendGhosts, isFullRegen, received, from)
  \/ \E removed \in SUBSET {r \in CommKeys \X CommInfos : r[2] \in kv.comm[r[1]]} :
       /\ Cardinality(removed) <= MaxCommEntities
       /\ erase_ghosting_comm_entries(removed)
  \/ \E deletedSides \in SUBSET {k \in CommKeys : k[1] = FACE_RANK} :
       delete_sides_on_all_procs(deletedSides)

SpecCommList == InitCommList /\ [][NextCommList]_vars

\* ------------------------------------------------------------- SpecRegistry
\* The ghosting registry m_ghosting of one process.  Ghosting names are numbered:
\* name 0 is "shared", name 1 is "shared_aura", the names from 2 on are the
\* application's.  kv.recv[o] holds the entities this process has received as
\* ghosts of the ghosting with ordinal o.
GhostingNames == 0 .. (1 + MaxCustomGhostings)
RegistryEntities == {1, 2}
Ghosting(name, ordinal) == [name |-> name, ordinal |-> ordinal]
\* the registry after the constructor: internal_create_ghosting("shared"),
\* internal_create_ghosting("shared_aura")
ConstructedRegistry == <<Ghosting(0, 0), Ghosting(1, 1)>>
InitRegistry ==
  /\ m_sync_state = MODIFIABLE
  /\ m_entity_repo = [k \in Keys |-> 0]
  /\ m_size = 1
  /\ m_entity_keys = [o \in Offsets |-> InvalidKey]
  /\ m_mesh_indexes = [o \in Offsets |-> {}]
  /\ m_entity_states = [o \in Offsets |-> Created]
  /\ m_conn = [o \in Offsets |-> {}]
  /\ m_deleted_entities = <<>>
  /\ m_deleted_entities_current_modification_cycle = <<>>
  /\ m_ghost_reuse_map = [k \in Keys |-> 0]
  /\ ret = Ret("construct", 0, "void")
  /\ kv = [m_ghosting |-> ConstructedRegistry,
           recv |-> [o \in 0 .. (1 + MaxCustomGhostings) |-> {}],
           sync |-> SYNCHRONIZED]

\* an ordinal counted over the application's ghostings only
new_ghosting_ordinal_among_custom(m_ghosting) == Len(m_ghosting) - 2
\* the ordinal internal_create_ghosting gives a new ghosting: m_ghosting.size()
new_ghosting_ordinal(m_ghosting) == Len(m_ghosting)

\* create_ghosting(name) -> internal_create_ghosting(name)
create_ghosting(name) ==
  LET op == "create_ghosting"
      existing == {i \in 1 .. Len(kv.m_ghosting) : kv.m_ghosting[i].name = name}
  IN /\ UNCHANGED meshvars
     /\ IF kv.sync = SYNCHRONIZED
        THEN ret' = Ret(op, 0, "throw") /\ UNCHANGED kv
        ELSE IF existing # {}
        THEN /\ ret' = Ret(op, kv.m_ghosting[CHOOSE i \in existing : TRUE].ordinal, "existing")
             /\ UNCHANGED kv
        ELSE LET g == Ghosting(name, new_ghosting_ordinal(kv.m_ghosting))
             IN /\ kv' = [kv EXCEPT !.m_ghosting = Append(@, g)]
                /\ ret' = Ret(op, g.ordinal, "created")

\* a change_ghosting or aura regeneration in which this process receives entity e
\* as a ghost of the registered ghosting with ordinal o
receive_ghost(o, e) ==
  /\ kv.sync = MODIFIABLE
  /\ o >= AURA_ORDINAL
  /\ o < Len(kv.m_ghosting)
  /\ kv' = [kv EXCEPT !.recv[o] = @ \cup {e}]
  /\ ret' = Ret("ghost_entities_and_fields", o, "void")
  /\ UNCHANGED meshvars

\* destroy_ghosting(ghost_layer): internal_verify_inputs_and_change_ghosting with
\* the receive list of the ghosting; the registry keeps the ghosting
destroy_ghosting(o) ==
  LET op == "destroy_ghosting"
  IN /\ o < Len(kv.m_ghosting)
     /\ UNCHANGED meshvars
     /\ IF kv.sync = SYNCHRONIZED \/ ~(AURA_ORDINAL < kv.m_ghosting[o + 1].ordinal)
        THEN ret' = Ret(op, o, "throw") /\ UNCHANGED kv
        ELSE /\ kv' = [kv EXCEPT !.recv[o] = {}]
             /\ ret' = Ret(op, o, "void")

\* destroy_all_ghosting: the ghosting entries of every entity are cleared and the
\* received ghosts destroyed; the registry keeps every ghosting
destroy_all_ghosting ==
  LET op == "destroy_all_ghosting"
  IN /\ UNCHANGED meshvars
     /\ IF kv.sync = SYNCHRONIZED
        THEN ret' = Ret(op, 0, "throw") /\ UNCHANGED kv
        ELSE /\ kv' = [kv EXCEPT !.recv = [o \in DOMAIN @ |-> {}]]
             /\ ret' = Ret(op, 0, "void")

registry_modification_begin ==
  /\ kv' = [kv EXCEPT !.sync = MODIFIABLE]
  /\ ret' = Ret("modification_begin", 0, IF kv.sync = SYNCHRONIZED THEN "true" ELSE "false")
  /\ UNCHANGED meshvars
registry_modification_end ==
  /\ kv.sync = MODIFIABLE
  /\ kv' = [kv EXCEPT !.sync = SYNCHRONIZED]
  /\ ret' = Ret("internal_modification_end_for_change_ghosting", 0, "void")
  /\ UNCHANGED meshvars

NextRegistry ==
  \/ \E name \in GhostingNames : create_ghosting(name)
  \/ \E o \in 0 .. (1 + MaxCustomGhostings), e \in RegistryEntities : receive_ghost(o, e)
  \/ \E o \in 0 .. (1 + MaxCustomGhostings) : destroy_ghosting(o)
  \/ destroy_all_ghosting
  \/ registry_modification_begin
  \/ registry_modification_end

SpecRegistry == InitRegistry /\ [][NextRegistry]_vars

\* ----------------------------------------------------------- SpecMembership
\* One node shared by the processes kv.holders, owned by kv.owner, over the
\* modification cycles.  kv.parts[p] are the node's parts on process p,
\* kv.induced[p] what induced_part_membership gives on p (the element blocks of the
\* elements of p connected to the node), kv.st[p] the node's state on p.
block_a == "block_a"
block_b == "block_b"
\* a part of node rank, given to nodes directly
nodeset_part == "nodeset"
InducedParts == {block_a, block_b}
MemberParts == InducedParts \cup {nodeset_part}
\* Part::entity_membership_is_parallel_consistent(): false for the owned, shared and
\* ghosting parts
entity_membership_is_parallel_consistent(part) ==
  part \notin {locally_owned_part, globally_shared_part, ghost_part}

InitMembership ==
  /\ m_sync_state = MODIFIABLE
  /\ m_entity_repo = [k \in Keys |-> 0]
  /\ m_size = 1
  /\ m_entity_keys = [o \in Offsets |-> InvalidKey]
  /\ m_mesh_indexes = [o \in Offsets |-> {}]
  /\ m_entity_states = [o \in Offsets |-> Created]
  /\ m_conn = [o \in Offsets |-> {}]
  /\ m_deleted_entities = <<>>
  /\ m_deleted_entities_current_modification_cycle = <<>>
  /\ m_ghost_reuse_map = [k \in Keys |-> 0]
  /\ ret = Ret("construct", 0, "void")
  /\ \E holders \in SUBSET Procs : \E owner \in holders : \E ghosted \in SUBSET holders :
       /\ Cardinality(holders) >= 2
       /\ owner \notin ghosted
       /\ kv = [holders |-> holders,
                owner |-> owner,
                st |-> [p \in Procs |-> Unchanged],
                induced |-> [p \in Procs |-> {}],
                parts |-> [p \in Procs |->
                             IF p \notin holders THEN {}
                             ELSE {universal_part}
                                  \cup (IF p = owner THEN {locally_owned_part} ELSE {})
                                  \cup {globally_shared_part}
                                  \cup (IF p \in ghosted THEN {ghost_part} ELSE {})]]

\* a change of the elements of process p around the node (declare_relation,
\* destroy_relation, change_entity_parts of an element) after which the parts
\* induced on the node are `blocks`: newly induced parts are added at once, the
\* removal of a part from a shared entity waits for the modification end
change_induced_parts(p, blocks) ==
  /\ p \in kv.holders
  /\ blocks # kv.induced[p]
  /\ kv' = [kv EXCEPT !.induced[p] = blocks,
                      !.parts[p] = @ \cup blocks,
                      !.st[p] = Modified]
  /\ ret' = Ret("declare_relation", p, "void")
  /\ UNCHANGED meshvars

\* change_entity_parts(node, add_parts, remove_parts) on process p with a part of
\* the node's own rank
change_node_parts(p, add_parts, remove_parts) ==
  /\ p \in kv.holders
  /\ LET parts == (kv.parts[p] \ (remove_parts \ add_parts)) \cup add_parts
     IN /\ parts # kv.parts[p]
        /\ kv' = [kv EXCEPT !.parts[p] = parts, !.st[p] = Modified]
  /\ ret' = Ret("change_entity_parts", p, "void")
  /\ UNCHANGED meshvars

\* internal_resolve_shared_membership that does not exchange the states
kept_local_state(st, p) == st[p]
\* internal_resolve_shared_membership, the unpacking of the states of the sharers:
\* an Unchanged copy becomes Modified when a sharer's copy is not Unchanged
state_after_exchange(st, p) ==
  IF st[p] = Unchanged /\ \E q \in kv.holders \ {p} : st[q] # Unchanged
  THEN Modified ELSE st[p]

\* impl::filter_out_unneeded_induced_parts: the current parts of the induced kind
\* that are not in the induced list
filter_out_unneeded_induced_parts(current, induced_part_ordinals) ==
  {part \in current : part \in InducedParts /\ part \notin induced_part_ordinals}
\* remove_unneeded_induced_parts(entity, ...) on the owner: its induced parts and
\* those unpacked from the sharers that sent them
remove_unneeded_induced_parts(st) ==
  LET o == kv.owner
      induced_part_ordinals ==
        kv.induced[o] \cup UNION {kv.induced[q] : q \in {r \in kv.holders \ {o} : st[r] # Unchanged}}
      removeParts == filter_out_unneeded_induced_parts(kv.parts[o], induced_part_ordinals)
  IN (kv.parts[o] \ removeParts) \cup induced_part_ordinals

\* internal_send_part_memberships_from_owner, the unpacking on a process that is
\* not the owner, which holds `current`
internal_send_part_memberships_from_owner(current, sent) ==
  LET owner_parts == {part \in sent : entity_membership_is_parallel_consistent(part)}
      remove_parts == {part \in current :
                         /\ part \notin {universal_part, locally_owned_part, globally_shared_part}
                         /\ part # ghost_part
                         /\ part \notin owner_parts}
  IN (current \ remove_parts) \cup owner_parts

\* the modification end of every process: internal_resolve_shared_membership for the
\* node, then internal_finish_modification_end
resolve_shared_membership_and_finish ==
  /\ LET st == [p \in Procs |-> state_after_exchange(kv.st, p)]
         o == kv.owner
         owner_parts == IF st[o] # Unchanged THEN remove_unneeded_induced_parts(st)
                        ELSE kv.parts[o]
     IN kv' = [kv EXCEPT
          !.parts = [p \in Procs |->
                       IF p \notin kv.holders THEN {}
                       ELSE IF p = o THEN owner_parts
                       ELSE IF st[o] # Unchanged
                       THEN internal_send_part_memberships_from_owner(kv.parts[p], owner_parts)
                       ELSE kv.parts[p]],
          !.st = [p \in Procs |-> Unchanged]]
  /\ ret' = Ret("modification_end", 0, "true")
  /\ UNCHANGED meshvars

NextMembership ==
  \/ \E p \in Procs, blocks \in SUBSET InducedParts : change_induced_parts(p, blocks)
  \/ \E p \in Procs, add \in {{}, {nodeset_part}}, rem \in {{}, {nodeset_part}} :
       change_node_parts(p, add, rem)
  \/ resolve_shared_membership_and_finish

SpecMembership == InitMembership /\ [][NextMembership]_vars

\* ================================================= entity states (SpecMark)
\* One process of a parallel run whose mesh holds node 1, face 1 and element 1,
\* synchronized, with the node (or the node and the face) shared with another
\* process.  The process declares and destroys relations and changes parts in
\* modification cycles; the end of a cycle first exchanges the states of the
\* shared entities (internal_resolve_shared_membership) and then resets them.
\*   kv.shared : the entities whose comm map names the sharing process
MarkKeys == <<<<NODE_RANK, 1>>, <<FACE_RANK, 1>>, <<ELEM_RANK, 1>>>>
RemoteStates == {Unchanged, Created, Modified}

\* the arrays of process 0 after the cycle that declared the three entities
SynchronizedMeshOfThree ==
  LET M0 == [keys |-> [o \in Offsets |-> InvalidKey], parts |-> [o \in Offsets |-> {}],
             st |-> [o \in Offsets |-> Created], conn |-> [o \in Offsets |-> {}]]
      M3 == DeclaredMesh(DeclaredMesh(DeclaredMesh(M0, 1, MarkKeys[1], {}),
                                      2, MarkKeys[2], {}), 3, MarkKeys[3], {})
  IN /\ m_sync_state = SYNCHRONIZED
     /\ m_entity_repo = [k \in Keys |-> IF \E o \in 1 .. 3 : MarkKeys[o] = k
                                        THEN CHOOSE o \in 1 .. 3 : MarkKeys[o] = k ELSE 0]
     /\ m_size = 4
     /\ m_entity_keys = M3.keys
     /\ m_mesh_indexes = M3.parts
     /\ m_entity_states = [o \in Offsets |-> IF o \in 1 .. 3 THEN Unchanged ELSE M3.st[o]]
     /\ m_conn = M3.conn
     /\ m_deleted_entities = <<>>
     /\ m_deleted_entities_current_modification_cycle = <<>>
     /\ m_ghost_reuse_map = [k \in Keys |-> 0]
     /\ ret = Ret("modification_end", 0, "true")

InitMark ==
  /\ SynchronizedMeshOfThree
  /\ \E shared \in {{1}, {1, 2}} : kv = [shared |-> shared]

\* the process is inside modification_end, between the state exchange and the reset
InModificationEnd == ret.op = "internal_resolve_shared_membership"

\* the unpack loop of internal_resolve_shared_membership: remote[e] is the state
\* the sharing process packed for e
exchanged_states(M, remote) ==
  [o \in DOMAIN M.st |->
     IF o \in kv.shared /\ M.st[o] = Unchanged /\ remote[o] # Unchanged
     THEN Modified ELSE M.st[o]]

\* modification_end up to the end of the state exchange of
\* internal_resolve_shared_membership
exchange_shared_entity_states(remote) ==
  /\ ~in_synchronized_state
  /\ ~InModificationEnd
  /\ m_entity_states' = exchanged_states(Mesh, remote)
  /\ ret' = Ret("internal_resolve_shared_membership", 0, "void")
  /\ UNCHANGED <<m_sync_state, m_entity_repo, m_size, m_entity_keys, m_mesh_indexes, m_conn,
                 m_deleted_entities, m_deleted_entities_current_modification_cycle,
                 m_ghost_reuse_map, kv>>

\* the rest of modification_end
finish_modification_end_after_exchange ==
  /\ InModificationEnd
  /\ internal_finish_modification_end
  /\ ret' = Ret("modification_end", 0, "true")

NextMark ==
  \/ ~InModificationEnd /\ modification_begin
  \/ ~InModificationEnd /\
       \E e_from \in Handles, e_to \in Handles, o \in Ordinals : declare_relation(e_from, e_to, o)
  \/ ~InModificationEnd /\
       \E e_from \in Handles, e_to \in Handles, o \in Ordinals : destroy_relation(e_from, e_to, o)
  \/ ~InModificationEnd /\
       \E e \in Handles : \E add \in AnyRankPartArgs, rem \in AnyRankPartArgs :
         change_entity_parts(e, add, rem)
  \/ \E remote \in [kv.shared -> RemoteStates] : exchange_shared_entity_states(remote)
  \/ finish_modification_end_after_exchange

SpecMark == InitMark /\ [][NextMark]_vars

\* ================================ the input check of change_ghosting (SpecVerify)
\* The two processes of SpecGhosting call change_ghosting, each with the Ghosting
\* it was given, its add_send and its remove_receive.  ret.ent records the
\* Ghosting ordinals and the add_send lists of the call.
GhostingArgs == {SHARED_ORDINAL, AURA_ORDINAL, CUSTOM_ORDINAL}

\* BulkData::SHARED < ghosts.ordinal(): the test that lets the aura through
is_not_shared_ghosting(ordinal) == SHARED_ORDINAL < ordinal
\* check_errors_and_determine_if_ghosting_needed_in_parallel: is_custom_ghost
is_custom_ghost(ordinal) == AURA_ORDINAL < ordinal

\* verify_and_filter_add_send: add_send_is_owned after the loop
add_send_is_owned(p, add_send) == \A k \in add_send : kv.owner[k] = p

\* all_reduce(parallel(), ReduceMin<2>(statuses)) on the processes of GProcs
ReduceMin2(statuses) ==
  <<SetMin({statuses[p][1] : p \in GProcs}), SetMin({statuses[p][2] : p \in GProcs})>>

\* BulkData::internal_verify_inputs_and_change_ghosting, collective: process p
\* passes the Ghosting of ordinal ghosts[p], add_send[p] and remove_receive[p];
\* inputs: what ret.ent keeps of the call
internal_verify_inputs_and_change_ghosting(ghosts, add_send, remove_receive, inputs) ==
  LET W == World
      filtered_add_send == [p \in GProcs |-> verify_and_filter_add_send(W, p, add_send[p])]
      filtered_remove_receive ==
        [p \in GProcs |-> verify_and_filter_remove_receive(W, p, remove_receive[p])]
      need_to_change_ghosting ==
        [p \in GProcs |-> filtered_add_send[p] # {} \/ filtered_remove_receive[p] # {}]
      ok == [p \in GProcs |-> is_custom_ghost(ghosts[p]) /\ add_send_is_owned(p, add_send[p])]
      statuses == ReduceMin2([p \in GProcs |-> <<IF ok[p] THEN 1 ELSE 0,
                                                  IF need_to_change_ghosting[p] THEN 0 ELSE 1>>])
      something_wrong_on_any_proc == statuses[1] = 0
      anyProcsHaveNewGhosts == statuses[2] = 0
      W1 == internal_change_ghosting(W, filtered_add_send, filtered_remove_receive)
  IN /\ \A p \in GProcs : add_send[p] \subseteq kv.valid[p] /\ remove_receive[p] \subseteq kv.valid[p]
     /\ IF something_wrong_on_any_proc
        THEN /\ kv' = [kv EXCEPT !.regens = 0]
             /\ ret' = Ret("change_ghosting", inputs, "throw")
        ELSE /\ kv' = IF anyProcsHaveNewGhosts
                      THEN [kv EXCEPT !.valid = W1.valid, !.rel = W1.rel, !.comm = W1.comm,
                                      !.regens = 0]
                      ELSE [kv EXCEPT !.regens = 0]
             /\ ret' = Ret("change_ghosting", inputs,
                           IF anyProcsHaveNewGhosts /\ FailedToDestroy(W1) # {}
                           THEN "throw" ELSE "void")
     /\ UNCHANGED meshvars

\* the layouts of InitGhosting in which process 0 owns the element and node 1 and
\* process 1 owns node 2
InitVerify ==
  /\ InitGhosting
  /\ kv.owner = [k \in GhostKeys |-> IF k = <<NODE_RANK, 2>> THEN 1 ELSE 0]

\* the remove_receive lists of a call: no key or one
RemoveReceiveArgs(p) == {{}} \cup {{k} : k \in NotOwned(p)}

NextVerify ==
  \E ghosts \in [GProcs -> GhostingArgs] :
  \E sender \in GProcs : \E add_send \in SUBSET kv.valid[sender] :
  \E receiver \in GProcs : \E remove_receive \in RemoveReceiveArgs(receiver) :
    LET add == [p \in GProcs |-> IF p = sender THEN add_send ELSE {}]
    IN internal_verify_inputs_and_change_ghosting(
         ghosts, add, [p \in GProcs |-> IF p = receiver THEN remove_receive ELSE {}],
         [ghosts |-> ghosts, add_send |-> add])

SpecVerify == InitVerify /\ [][NextVerify]_vars

\* ============================== the batch calls and the modification scope (SpecBatch)
\* Process 0 of the two processes of SpecVerify, with the part arrays of its node 1,
\* face 1 and element 1, calls batch_change_entity_parts and, with process 1,
\* batch_add_to_ghosting, inside and outside a modification cycle.  ret.ent
\* records the Ghosting ordinal and the add_send lists of batch_add_to_ghosting.
InitBatch ==
  /\ SynchronizedMeshOfThree
  /\ \E w \in {x \in [owner : [GhostKeys -> GProcs], valid : [GProcs -> SUBSET GhostKeys],
                     rel : [GProcs -> SUBSET (GhostElems \X GhostNodes)],
                     comm : {[p \in GProcs |-> {<<k, "SHARED", other_proc(p)>> : k \in s}] :
                               s \in SUBSET GhostNodes},
                     regens : {0}] :
                 /\ x.owner = [k \in GhostKeys |-> IF k = <<NODE_RANK, 2>> THEN 1 ELSE 0]
                 /\ x.valid = [p \in GProcs |->
                                 {k \in GhostKeys : x.owner[k] = p
                                                    \/ <<k, "SHARED", other_proc(p)>> \in x.comm[p]}]
                 /\ x.rel = [p \in GProcs |->
                               {r \in GhostElems \X GhostNodes :
                                  x.owner[r[1]] = p /\ r[2] \in x.valid[p]}]} :
       kv = w

\* batch_change_entity_parts(entities, add_parts, remove_parts) with empty vectors
batch_change_entity_parts_of_no_entity ==
  LET op == "batch_change_entity_parts"
      starting_modification == in_synchronized_state
  IN IF ~starting_modification
     THEN Throws(op)
     ELSE ret' = Ret(op, 0, "void") /\ internal_finish_modification_end

\* BulkData::batch_add_to_ghosting(ghosting, entitiesAndDestinationProcs), collective
\* and with the Ghosting of ordinal ghosts on both processes, had it called
\* internal_batch_add_to_ghosting whatever inputs_ok_and_need_ghosting returned
batch_add_to_ghosting_unconditionally(ghosts, add_send) ==
  LET W == World
      filtered_add_send == [p \in GProcs |-> verify_and_filter_add_send(W, p, add_send[p])]
      ok == [p \in GProcs |-> is_custom_ghost(ghosts) /\ add_send_is_owned(p, add_send[p])]
      statuses == ReduceMin2([p \in GProcs |-> <<IF ok[p] THEN 1 ELSE 0, 1>>])
      something_wrong_on_any_proc == statuses[1] = 0
      starting_modification == in_synchronized_state
      W1 == ghost_entities_and_fields_between(
              W, "CUSTOM", [p \in GProcs |-> newSendGhosts(W, p, filtered_add_send[p])], FALSE)
      inputs == [ghosts |-> ghosts, add_send |-> add_send]
      op == "batch_add_to_ghosting"
  IN /\ \A p \in GProcs : add_send[p] \subseteq kv.valid[p]
     /\ IF something_wrong_on_any_proc \/ ~starting_modification
        THEN ret' = Ret(op, inputs, "throw") /\ UNCHANGED <<meshvars, kv>>
        ELSE /\ kv' = [kv EXCEPT !.valid = W1.valid, !.rel = W1.rel, !.comm = W1.comm]
             /\ ret' = Ret(op, inputs, "void")
             /\ m_sync_state' = SYNCHRONIZED
             /\ m_deleted_entities' =
                  update_deleted_entities_container(m_deleted_entities,
                                                    m_deleted_entities_current_modification_cycle,
                                                    m_ghost_reuse_map)
             /\ m_deleted_entities_current_modification_cycle' = <<>>
             /\ m_ghost_reuse_map' = [k \in Keys |-> 0]
             /\ m_entity_states' = reset_undeleted_entity_states_to_unchanged(m_entity_states)
             /\ UNCHANGED <<m_entity_repo, m_size, m_entity_keys, m_mesh_indexes, m_conn>>

\* BulkData::batch_add_to_ghosting(ghosting, entitiesAndDestinationProcs), collective
\* and with the Ghosting of ordinal ghosts on both processes:
\* inputs_ok_and_need_ghosting, then internal_batch_add_to_ghosting
batch_add_to_ghosting(ghosts, add_send) ==
  LET W == World
      filtered_add_send == [p \in GProcs |-> verify_and_filter_add_send(W, p, add_send[p])]
      need_to_change_ghosting == [p \in GProcs |-> filtered_add_send[p] # {}]
      ok == [p \in GProcs |-> is_custom_ghost(ghosts) /\ add_send_is_owned(p, add_send[p])]
      statuses == ReduceMin2([p \in GProcs |-> <<IF ok[p] THEN 1 ELSE 0,
                                                  IF need_to_change_ghosting[p] THEN 0 ELSE 1>>])
      something_wrong_on_any_proc == statuses[1] = 0
      anyProcsHaveNewGhosts == statuses[2] = 0
      starting_modification == in_synchronized_state
      W1 == ghost_entities_and_fields_between(
              W, "CUSTOM", [p \in GProcs |-> newSendGhosts(W, p, filtered_add_send[p])], FALSE)
      inputs == [ghosts |-> ghosts, add_send |-> add_send]
      op == "batch_add_to_ghosting"
  IN /\ \A p \in GProcs : add_send[p] \subseteq kv.valid[p]
     /\ IF something_wrong_on_any_proc
        THEN ret' = Ret(op, inputs, "throw") /\ UNCHANGED <<meshvars, kv>>
        ELSE IF ~anyProcsHaveNewGhosts
        THEN ret' = Ret(op, inputs, "void") /\ UNCHANGED <<meshvars, kv>>
        ELSE IF ~starting_modification
        THEN ret' = Ret(op, inputs, "throw") /\ UNCHANGED <<meshvars, kv>>
        ELSE /\ kv' = [kv EXCEPT !.valid = W1.valid, !.rel = W1.rel, !.comm = W1.comm]
             /\ ret' = Ret(op, inputs, "void")
             /\ m_sync_state' = SYNCHRONIZED
             /\ m_deleted_entities' =
                  update_deleted_entities_container(m_deleted_entities,
                                                    m_deleted_entities_current_modification_cycle,
                                                    m_ghost_reuse_map)
             /\ m_deleted_entities_current_modification_cycle' = <<>>
             /\ m_ghost_reuse_map' = [k \in Keys |-> 0]
             /\ m_entity_states' = reset_undeleted_entity_states_to_unchanged(m_entity_states)
             /\ UNCHANGED <<m_entity_repo, m_size, m_entity_keys, m_mesh_indexes, m_conn>>

NextBatch ==
  \/ modification_begin
  \/ internal_modification_end_for_change_parts
  \/ \E e \in Handles : \E add \in AnyRankPartArgs \cup {{locally_owned_part}},
                           rem \in AnyRankPartArgs :
       batch_change_entity_parts(e, add, rem)
  \/ batch_change_entity_parts_of_no_entity
  \/ \E ghosts \in {AURA_ORDINAL, CUSTOM_ORDINAL} :
     \E sender \in GProcs : \E add_send \in SUBSET kv.valid[sender] :
       batch_add_to_ghosting(ghosts, [p \in GProcs |-> IF p = sender THEN add_send ELSE {}])

SpecBatch == InitBatch /\ [][NextBatch]_vars

\* ====================== removed receive-ghosts of change_ghosting (SpecRemove)
\* The two processes of SpecGhosting on the layouts in which process 0 owns both
\* nodes and the element has node 1 only.  change_ghosting is called for the
\* custom ghosting; ret.ent records its add_send and remove_receive lists as
\* well.  Between the calls a process may
\* declare a relation from the element it owns in a cycle of its own.
InitRemove ==
  /\ InitGhosting
  /\ \A k \in GhostNodes : kv.owner[k] = 0
  /\ \A p \in GProcs : kv.rel[p] \subseteq {<<<<ELEM_RANK, 1>>, <<NODE_RANK, 1>>>>}

\* BulkData::change_ghosting(ghosts, add_send, remove_receive) for the custom
\* ghosting, with the call's lists kept in ret.ent
change_ghosting_of_custom(add_send, remove_receive) ==
  internal_verify_inputs_and_change_ghosting(
    [p \in GProcs |-> CUSTOM_ORDINAL], add_send, remove_receive,
    [add_send |-> add_send, remove_receive |-> remove_receive])

NextRemove ==
  \/ \E sender \in GProcs : \E add_send \in SUBSET kv.valid[sender] :
     \E receiver \in GProcs : \E remove_receive \in SUBSET NotOwned(receiver) :
       change_ghosting_of_custom([p \in GProcs |-> IF p = sender THEN add_send ELSE {}],
                                 [p \in GProcs |-> IF p = receiver THEN remove_receive ELSE {}])
  \/ \E p \in GProcs : \E e \in GhostElems : \E n \in GhostNodes :
       declare_relation_modification_end(p, e, n)

SpecRemove == InitRemove /\ [][NextRemove]_vars

\* ========================= krino child nodes of shared requests (SpecChildShare)
\* batch_create_child_nodes on the processes of Procs.  Nodes 1 and 2 exist before
\* the call and are shared by the processes of kv.mesh.  Every process has up to
\* MaxRequests requests, no two with the same parents:
\*   "AB"      : the parents are nodes 1 and 2
\*   "A"       : the parent is node 1
\*   "derived" : the parents are node 1 and the child of the process's other request
\*   kv.kind[p][s]                : the request in slot s of process p, or "none"
\*   kv.child[p][s]               : the id of the node declared for it (0: none)
\*   kv.sharing[p][s]             : the processes given to add_node_sharing for it
\*   kv.communicate_request[p][s] : communicate_request[s] on process p
\*   kv.active[p]                 : the slots of active_child_node_requests on p
\*   kv.round[p][s]               : the iteration in which the request became active
\*   kv.rounds[p]                 : iterations of the while loop begun on p
RequestKindArgs == {"none", "AB", "A", "derived"}
other_request(s) == CHOOSE t \in Requests : t # s

InitChildShare ==
  /\ SyncMesh
  /\ ret = Ret("construct", 0, "void")
  /\ \E mesh \in SUBSET Procs : \E kind \in [Procs -> [Requests -> RequestKindArgs]] :
       /\ Cardinality(mesh) >= 2
       /\ \A p \in Procs \ mesh : \A s \in Requests : kind[p][s] = "none"
       /\ \A p \in Procs : \A s, t \in Requests :
            (s # t /\ kind[p][s] = kind[p][t]) => kind[p][s] \in {"none", "derived"}
       /\ kv = [mesh |-> mesh,
                kind |-> kind,
                child |-> [p \in Procs |-> [s \in Requests |-> 0]],
                sharing |-> [p \in Procs |-> [s \in Requests |-> {}]],
                communicate_request |-> [p \in Procs |-> [s \in Requests |-> FALSE]],
                active |-> [p \in Procs |-> {}],
                round |-> [p \in Procs |-> [s \in Requests |-> 0]],
                rounds |-> [p \in Procs |-> 0],
                pc |-> [p \in Procs |-> "scan"]]

\* EntityIdPool::generate_new_ids: ids that no process uses, one for each request
available_node_ids(p, s) == 2 + p * MaxRequests + s

\* mesh.is_valid(*request_parent) for every parent of the request in slot s of p
parents_are_valid(p, s) ==
  CASE kv.kind[p][s] \in {"AB", "A"} -> TRUE
    [] kv.kind[p][s] = "derived" -> kv.child[p][other_request(s)] # 0
    [] OTHER -> FALSE
\* ActiveChildNodeRequest::m_parents: the ids of the parents, sorted
m_parents(p, s) ==
  CASE kv.kind[p][s] = "AB" -> <<1, 2>>
    [] kv.kind[p][s] = "A" -> <<1>>
    [] OTHER -> <<1, kv.child[p][other_request(s)]>>
\* mesh.comm_shared_procs(key, procs) on process p for the node of this id
comm_shared_procs(p, id) ==
  IF id \in {1, 2} THEN kv.mesh \ {p}
  ELSE UNION {kv.sharing[p][s] : s \in {t \in Requests : kv.child[p][t] = id}}
\* ActiveChildNodeRequest::calculate_sharing_procs
calculate_sharing_procs(p, s) ==
  {q \in Procs : \A i \in DOMAIN m_parents(p, s) : q \in comm_shared_procs(p, m_parents(p, s)[i])}

\* the loop over child_node_requests of one iteration on process p
child_share_scan(p) ==
  /\ kv.pc[p] = "scan"
  /\ LET ready == {s \in Requests : /\ kv.kind[p][s] # "none"
                                    /\ ~kv.communicate_request[p][s]
                                    /\ parents_are_valid(p, s)}
     IN kv' = [kv EXCEPT
          !.communicate_request[p] = [s \in Requests |-> @[s] \/ s \in ready],
          !.active[p] = ready,
          !.round[p] = [s \in Requests |-> IF s \in ready THEN kv.rounds[p] + 1 ELSE @[s]],
          !.rounds[p] = @ + 1,
          !.pc[p] = "all_reduce_max"]
  /\ ret' = Ret("batch_create_child_nodes", 0, "scan")
  /\ UNCHANGED meshvars

\* stk::all_reduce_max of more_work_to_be_done, and the break
child_share_all_reduce_max ==
  /\ \A p \in Procs : kv.pc[p] = "all_reduce_max"
  /\ kv' = [kv EXCEPT !.pc = [p \in Procs |-> IF \A q \in Procs : kv.active[q] = {}
                                              THEN "break" ELSE "communicate"]]
  /\ ret' = Ret("batch_create_child_nodes", 0, "all_reduce_max")
  /\ UNCHANGED meshvars

\* what process p receives: from every other process q the parents and the
\* suggested id of each active request of q that has p among its sharing processes
received_requests(p) ==
  {<<q, m_parents(q, t), available_node_ids(q, t)>> :
     <<q, t>> \in {x \in (Procs \ {p}) \X Requests :
                     x[2] \in kv.active[x[1]] /\ p \in calculate_sharing_procs(x[1], x[2])}}
\* m_id_proc_pairs_from_all_procs of the request in slot s of p after the unpack
\* loop, had the process kept only its own pair
own_proc_id_pair(p, s) == {<<p, available_node_ids(p, s)>>}
\* m_id_proc_pairs_from_all_procs of the request in slot s of p after the unpack
\* loop: its own pair and the pair of every received request with its parents
id_proc_pairs_from_all_procs(p, s) ==
  {<<p, available_node_ids(p, s)>>} \cup
  {<<m[1], m[3]>> : m \in {x \in received_requests(p) : x[2] = m_parents(p, s)}}

\* the exchange of the active requests, the unpack loop and
\* set_node_entity_for_request for every active request of every process
child_share_communicate ==
  /\ \A p \in Procs : kv.pc[p] = "communicate"
  /\ kv' = [kv EXCEPT
       !.child = [p \in Procs |-> [s \in Requests |->
                    IF s \in kv.active[p]
                    THEN get_id_for_child(sort_id_proc_pairs(
                           SortedSeq(id_proc_pairs_from_all_procs(p, s))))
                    ELSE kv.child[p][s]]],
       !.sharing = [p \in Procs |-> [s \in Requests |->
                      IF s \in kv.active[p]
                      THEN {x[1] : x \in id_proc_pairs_from_all_procs(p, s)} \ {p}
                      ELSE kv.sharing[p][s]]],
       !.active = [p \in Procs |-> {}],
       !.pc = [p \in Procs |-> "scan"]]
  /\ ret' = Ret("batch_create_child_nodes", 0, "communicate")
  /\ UNCHANGED meshvars

\* after the loop: ThrowRequireMsg that every request was communicated
child_share_return(p) ==
  /\ kv.pc[p] = "break"
  /\ LET ok == \A s \in Requests : kv.kind[p][s] = "none" \/ kv.communicate_request[p][s]
     IN /\ kv' = [kv EXCEPT !.pc[p] = IF ok THEN "done" ELSE "thrown"]
        /\ ret' = Ret("batch_create_child_nodes", 0, IF ok THEN "void" ELSE "throw")
  /\ UNCHANGED meshvars

NextChildShare ==
  \/ \E p \in Procs : child_share_scan(p)
  \/ child_share_all_reduce_max
  \/ child_share_communicate
  \/ \E p \in Procs : child_share_return(p)

SpecChildShare == InitChildShare /\ [][NextChildShare]_vars

\* ============ krino delete_all_entities_using_nodes_with_nodal_volume_below_threshold
\* (SpecDelete).  Every iteration finds on each process some owned nodes with a nodal
\* volume below the threshold; deleting them and the entities using them changes the
\* nodal volumes of the nodes that remain, so what the next iteration finds is free.
\*   kv.iteration  : the local variable of the same name
\*   kv.nodesToDelete[p] : nodesToDelete.size() on process p in the last iteration
\*   kv.numNodesDeletedWithSmallVolume : the global sum of the last iteration
\*   kv.performed  : the calls of delete_nodes_with_nodal_volume_below_threshold_...
\*   kv.message    : what was written to outputP0 after the loop ("" before)
\*   kv.pc         : "loop", "report" or "done"
maxIterations == 10
SmallNodeCounts == 0 .. MaxSmallNodes

RECURSIVE SumUpTo(_, _)
SumUpTo(f, p) == IF p < 0 THEN 0 ELSE f[p] + SumUpTo(f, p - 1)
\* stk::get_global_sum(mesh.parallel(), nodesToDelete.size())
get_global_sum(f) == SumUpTo(f, NumProcs - 1)

InitDelete ==
  /\ SyncMesh
  /\ ret = Ret("construct", 0, "void")
  /\ kv = [iteration |-> 0,
           nodesToDelete |-> [p \in Procs |-> 0],
           numNodesDeletedWithSmallVolume |-> 0,
           performed |-> 0,
           message |-> "",
           pc |-> "loop"]

\* one pass of the loop body: ++iteration <= maxIterations holds, the nodes below
\* the threshold are deleted, and the loop goes on if any process had one
delete_nodes_with_nodal_volume_below_threshold_and_all_entities_using_them ==
  /\ kv.pc = "loop"
  /\ kv.iteration + 1 <= maxIterations
  /\ \E nodesToDelete \in [Procs -> SmallNodeCounts] :
       LET globalNumNodesToDelete == get_global_sum(nodesToDelete)
       IN /\ kv' = [kv EXCEPT
               !.iteration = @ + 1,
               !.nodesToDelete = nodesToDelete,
               !.numNodesDeletedWithSmallVolume = globalNumNodesToDelete,
               !.performed = @ + 1,
               !.pc = IF globalNumNodesToDelete > 0 THEN "loop" ELSE "report"]
          /\ ret' = Ret("delete_nodes_with_nodal_volume_below_threshold", 0,
                        IF globalNumNodesToDelete > 0 THEN "deleted" ELSE "break")
  /\ UNCHANGED meshvars

\* the loop condition fails: ++iteration <= maxIterations is false
delete_all_entities_loop_end ==
  /\ kv.pc = "loop"
  /\ ~(kv.iteration + 1 <= maxIterations)
  /\ kv' = [kv EXCEPT !.iteration = @ + 1, !.pc = "report"]
  /\ ret' = Ret("delete_all_entities_using_nodes_with_nodal_volume_below_threshold", 0, "loop end")
  /\ UNCHANGED meshvars

\* the message after the loop
delete_all_entities_report ==
  /\ kv.pc = "report"
  /\ kv' = [kv EXCEPT
       !.message = IF kv.iteration < maxIterations
                   THEN "Successfully deleted all nodes"
                   ELSE "Terminating after performing max iterations",
       !.pc = "done"]
  /\ ret' = Ret("delete_all_entities_using_nodes_with_nodal_volume_below_threshold", 0, "void")
  /\ UNCHANGED meshvars

NextDelete ==
  \/ delete_nodes_with_nodal_volume_below_threshold_and_all_entities_using_them
  \/ delete_all_entities_loop_end
  \/ delete_all_entities_report

SpecDelete == InitDelete /\ [][NextDelete]_vars

\* ================================================================ properties
Mutators == {"declare_entity", "declare_entities", "declare_relation", "destroy_relation",
             "destroy_entity", "change_entity_parts", "change_entity_id"}
GuardedEnds == {"internal_modification_end_for_entity_creation",
                "internal_modification_end_for_change_entity_owner",
                "internal_modification_end_for_skin_mesh"}
ModificationEnds == GuardedEnds \cup {"internal_modification_end_for_change_parts",
                                      "internal_modification_end_for_change_ghosting"}
EntityVars == <<m_entity_repo, m_size, m_entity_keys, m_mesh_indexes, m_entity_states, m_conn>>

\* C1: connectivity is symmetric: after any sequence of declare_relation,
\* destroy_relation and destroy_entity calls, A holds a relation to B with ordinal k
\* if and only if B holds the back relation to A with the same ordinal k.
C1_RelationSymmetry ==
  \A a \in Offsets, b \in Offsets, k \in Ordinals :
    <<b, k>> \in m_conn[a] <=> <<a, k>> \in m_conn[b]
\* a relation is left, in both lists, after another one was destroyed
C1_Witness ==
  /\ ret = Ret("destroy_relation", 0, "true")
  /\ \E a \in Handles, b \in Handles, k \in Ordinals :
       <<b, k>> \in m_conn[a] /\ <<a, k>> \in m_conn[b]

\* C6: while the mesh is Synchronized, every mutating call (declare_entity,
\* declare_entities, declare_relation, destroy_relation, destroy_entity,
\* change_entity_parts, change_entity_id) ends in a fatal error and leaves the
\* entities, relations, part memberships and entity states unchanged.
C6_SynchronizedMutatorsFail ==
  [][(in_synchronized_state /\ ret'.op \in Mutators)
       => (ret'.res = "throw" /\ UNCHANGED EntityVars)]_vars

\* C7: modification_begin on a mesh that is already Modifiable fails and opens no
\* nested cycle: it returns false, the operations built on it (batch_change_entity_parts)
\* throw, and the mesh stays as it is in the cycle that is already open.
C7_NoNestedCycle ==
  [][(m_sync_state = MODIFIABLE)
       => /\ (ret'.op = "modification_begin")
               => (ret'.res = "false" /\ UNCHANGED meshvars)
          /\ (ret'.op = "batch_change_entity_parts")
               => (ret'.res = "throw" /\ UNCHANGED meshvars)]_vars
\* modification_begin has returned false inside an open cycle
C7_Witness == m_sync_state = MODIFIABLE /\ ret = Ret("modification_begin", 0, "false")

\* C8 as stated: every modification-end variant called on a Synchronized mesh
\* returns false and changes nothing.
C8_EveryVariantGuarded ==
  [][(in_synchronized_state /\ ret'.op \in ModificationEnds)
       => (ret'.res = "false" /\ UNCHANGED meshvars)]_vars
\* C8, amended: the variants for entity creation, change entity owner and skin mesh
\* return false and change nothing on a Synchronized mesh (the variants for change
\* parts and change ghosting carry no such test), and whenever any variant returns
\* true the mesh is Synchronized afterwards.
C8_GuardedVariants ==
  [][/\ (in_synchronized_state /\ ret'.op \in GuardedEnds)
          => (ret'.res = "false" /\ UNCHANGED meshvars)
     /\ (ret'.op \in ModificationEnds /\ ret'.res = "true")
          => m_sync_state' = SYNCHRONIZED]_vars
\* a guarded variant has returned false on a Synchronized mesh that holds entities
C8_Witness ==
  /\ in_synchronized_state
  /\ ret = Ret("internal_modification_end_for_skin_mesh", 0, "false")
  /\ \E e \in Handles : is_valid(Mesh, e)

\* C9: destroy_entity on an entity that still has upward connectivity returns false
\* without an exception and leaves the entity, its relations, its bucket membership
\* and the free lists of local offsets unchanged.
C9_DestroyWithUpwardConnectivity ==
  [][\A e \in Handles :
       (/\ m_sync_state = MODIFIABLE
        /\ is_valid(Mesh, e)
        /\ has_upward_connectivity(Mesh, e)
        /\ ret'.op = "destroy_entity"
        /\ ret'.ent = e)
         => (ret'.res = "false" /\ UNCHANGED meshvars)]_vars
\* destroy_entity has returned false for a valid entity with upward connectivity
C9_Witness ==
  \E e \in Handles :
    /\ is_valid(Mesh, e)
    /\ has_upward_connectivity(Mesh, e)
    /\ ret = Ret("destroy_entity", e, "false")

\* C10 as stated: with an element E connected to node N and a face F connected to
\* N, as soon as destroy_entity(F) has succeeded destroy_entity(N) succeeds, that is,
\* N has no upward connectivity left.
C10_NodeFreeOnceFaceDestroyed ==
  [][\A f \in Handles, n \in Handles, e \in Handles :
       (/\ is_valid(Mesh, f) /\ entity_rank(Mesh, f) = FACE_RANK
        /\ is_valid(Mesh, n) /\ entity_rank(Mesh, n) = NODE_RANK
        /\ is_valid(Mesh, e) /\ entity_rank(Mesh, e) = ELEM_RANK
        /\ n \in DownwardOf(Mesh, f)
        /\ n \in DownwardOf(Mesh, e)
        /\ ret' = Ret("destroy_entity", f, "true"))
         => ~has_upward_connectivity(Mesh', n)]_vars
\* C10, amended: destroy_entity(N) returns false as long as any higher-rank entity
\* (the face F or the element E) is connected to N, and succeeds on a valid N as
\* soon as none is.
C10_DestroyIffNoUpwardConnectivity ==
  [][\A n \in Handles :
       (/\ m_sync_state = MODIFIABLE
        /\ is_valid(Mesh, n)
        /\ ret'.op = "destroy_entity"
        /\ ret'.ent = n)
         => (ret'.res = "true" <=> ~has_upward_connectivity(Mesh, n))]_vars
\* E, F and N with E-F, E-N and F-N in place, and destroy_entity(N) refused
C10_Witness ==
  \E e \in Handles, f \in Handles, n \in Handles :
    /\ is_valid(Mesh, e) /\ entity_rank(Mesh, e) = ELEM_RANK
    /\ is_valid(Mesh, f) /\ entity_rank(Mesh, f) = FACE_RANK
    /\ is_valid(Mesh, n) /\ entity_rank(Mesh, n) = NODE_RANK
    /\ f \in DownwardOf(Mesh, e)
    /\ n \in DownwardOf(Mesh, e)
    /\ n \in DownwardOf(Mesh, f)
    /\ ret = Ret("destroy_entity", n, "false")

\* C11: declare_entity is rejected, creating no entity, whenever the id is outside
\* [1, max_id], the rank is outside the configured rank count or the rank is the
\* side rank, in every overload, with or without parts: no declare_entity call
\* returns an entity of such a key.
C11_BadRankOrIdRejected ==
  [][(ret'.op = "declare_entity" /\ ret'.res = "entity")
       => LET key == m_entity_keys'[ret'.ent]
          IN /\ key[1] < entity_rank_count
             /\ key[1] # side_rank
             /\ is_valid_id(key[2])]_vars

\* C13: a local offset freed by destroying an entity is handed to no entity before
\* the modification cycle has ended: until a modification end completes it stays in
\* the list of this cycle's deletions, outside the free list, with no entity at it
\* and returned by no declaring call; the modification end moves it to the free list.
C13_NoReuseWithinCycle ==
  [][/\ \A o \in Handles :
          ret' = Ret("destroy_entity", o, "true")
            => /\ o \in SeqSet(m_deleted_entities_current_modification_cycle')
               /\ o \notin SeqSet(m_deleted_entities')
     /\ \A o \in SeqSet(m_deleted_entities_current_modification_cycle) :
          /\ ~is_valid(Mesh, o)
          /\ o \notin SeqSet(m_deleted_entities)
          /\ IF ret'.op \in ModificationEnds /\ ret'.res \in {"true", "void"}
             THEN o \in SeqSet(m_deleted_entities')
             ELSE /\ ~is_valid(Mesh', o)
                  /\ o \in SeqSet(m_deleted_entities_current_modification_cycle')
                  /\ o \notin SeqSet(m_deleted_entities')
                  /\ ret'.op \in {"declare_entity", "declare_entities"} => ret'.ent # o]_vars
\* an entity has been created at a fresh offset while a lower offset, freed in this
\* cycle, waits for the end of the cycle
C13_Witness ==
  /\ ret = Ret("declare_entity", m_size - 1, "entity")
  /\ m_entity_states[ret.ent] = Created
  /\ \E o \in SeqSet(m_deleted_entities_current_modification_cycle) : o < ret.ent

\* the parts that are induced: those with a primary entity rank
InduciblePartsOf == {p \in UserParts : primary_entity_rank(p) # InvalidEntityRank}
ValidEntities == {e \in Handles : is_valid(Mesh, e)}

\* C16 as stated: after modification_end a lower-rank entity D is a member of an
\* inducible part P if and only if at least one higher-rank entity connected to D
\* is a member of P.
C16_InducedFromAnyHigherRank ==
  in_synchronized_state =>
    \A d \in ValidEntities, p \in InduciblePartsOf :
      entity_rank(Mesh, d) < primary_entity_rank(p)
        => (p \in m_mesh_indexes[d]
              <=> \E h \in UpwardOf(Mesh, d) : p \in m_mesh_indexes[h])
\* C16, amended: D is a member of an inducible part P that was not declared on D
\* itself if and only if at least one connected entity of P's primary entity rank is
\* a member of P; P on a connected entity of another rank, which has it by induction
\* itself, does not count.
C16_InducedFromPrimaryRank ==
  \A d \in ValidEntities, p \in InduciblePartsOf :
    entity_rank(Mesh, d) < primary_entity_rank(p)
      => (p \in m_mesh_indexes[d]
            <=> \E h \in UpwardOf(Mesh, d) :
                  entity_rank(Mesh, h) = primary_entity_rank(p) /\ p \in m_mesh_indexes[h])
\* after a modification end, a node has the block of its element, and another node,
\* connected to a face of the block only, has not
C16_Witness ==
  /\ in_synchronized_state
  /\ \E d \in ValidEntities, h \in ValidEntities :
       /\ entity_rank(Mesh, d) = NODE_RANK
       /\ h \in UpwardOf(Mesh, d)
       /\ entity_rank(Mesh, h) = ELEM_RANK
       /\ block_part \in m_mesh_indexes[h] \cap m_mesh_indexes[d]

\* --------------------------------------------------------------- SpecOwner
ResolutionDone == \A p \in kv.holders : kv.pc[p] = "moved"

\* C2: a key present on two or more processes has, after modification_end, exactly
\* one process that reports itself the owner, and every process holding the key
\* records that same process as the owner.
C2_OwnershipUniqueness ==
  ResolutionDone =>
    /\ Cardinality({p \in kv.holders : kv.owner[p] = p}) = 1
    /\ \A p \in kv.holders, r \in kv.holders : kv.owner[p] = kv.owner[r]
    /\ \A p \in kv.holders : locally_owned_part \in kv.parts[p] <=> kv.owner[p] = p
\* three holders, all of which created the entity, have resolved the owner
C2_Witness ==
  /\ ResolutionDone
  /\ Cardinality(kv.holders) >= 3
  /\ \A p \in kv.holders : kv.state[p] = Created

\* C5: determine_new_owner returns the lowest process rank in the shared set, the
\* calling process being a member only if the entity is still valid locally, be the
\* entity valid or destroyed locally.
C5_LowestRankOfSharedSet ==
  kv.q # NoQuery =>
    LET S == kv.shared[kv.q.proc] \cup (IF kv.q.valid THEN {kv.q.proc} ELSE {})
    IN S # {} => kv.q.result = SetMin(S)

\* ----------------------------------------------------------------- SpecKey
KeysResolved == \A p \in kv.creators : kv.pc[p] = "owned"
\* the creators of the entity that process p created (the same set of node keys)
Sharers(p) == {r \in kv.creators : SeqSet(kv.nodes[r]) = SeqSet(kv.nodes[p])}
DescendingUnpack == \A p \in kv.creators : IsDescending(kv.order[p])

\* C3 as stated: after resolution the key on every sharing process is the minimum
\* of the keys the sharing processes proposed, whatever the number of processes and
\* the order of unpacking.
C3_MinimumOfProposedKeys ==
  KeysResolved =>
    \A p \in kv.creators : kv.key[p] = SetMin({kv.proposed[r] : r \in Sharers(p)})
\* C3, amended: the key on every sharing process is the key proposed by the
\* lowest-ranked sharing process, whatever keys the others proposed, provided there
\* are two sharing processes or every process unpacks the proposals in descending
\* order of process rank.
C3_KeyOfLowestRankedSharer ==
  KeysResolved =>
    \A p \in kv.creators :
      (Cardinality(Sharers(p)) <= 2 \/ DescendingUnpack)
        => kv.key[p] = kv.proposed[SetMin(Sharers(p))]
\* three sharing processes, the lowest-ranked of which did not propose the smallest key
C3_Witness ==
  /\ KeysResolved
  /\ DescendingUnpack
  /\ \E p \in kv.creators :
       /\ Cardinality(Sharers(p)) >= 3
       /\ kv.proposed[SetMin(Sharers(p))] > SetMin({kv.proposed[r] : r \in Sharers(p)})
       /\ kv.key[p] = kv.proposed[SetMin(Sharers(p))]

C12_RedeclareRequiresOwner ==
  [][(ret'.op = "declare_entity" /\ ret'.ent # 0)
       => LET e == ret'.ent
              key == m_entity_keys'[e]
          IN /\ (ret'.res = "entity" /\ m_entity_repo[key] # 0)
                  => /\ e = m_entity_repo[key]
                     /\ parallel_owner_rank(e) = parallel_rank
                     /\ m_size' = m_size
                     /\ m_deleted_entities' = m_deleted_entities
             /\ (is_valid(Mesh, e) /\ parallel_owner_rank(e) # parallel_rank)
                  => (ret'.res = "throw" /\ UNCHANGED meshvars)]_vars
\* declare_entity has thrown on the key of a valid entity that another process owns
C12_Witness ==
  /\ ret.op = "declare_entity" /\ ret.res = "throw"
  /\ is_valid(Mesh, ret.ent)
  /\ parallel_owner_rank(ret.ent) # parallel_rank

\* C14: a ghost that is destroyed and received again with the same key in the same
\* modification cycle gets the local offset it had: destroying a ghost records its
\* offset under its key, nothing but a new receipt or destruction of that key or the
\* end of the cycle touches the record, no other entity and no free list holds the
\* offset meanwhile, and the receipt re-creates the entity at that offset.
C14_GhostOffsetReused ==
  [][/\ \A e \in Handles :
          (in_receive_ghost(Mesh, e) /\ ret' = Ret("destroy_entity", e, "true"))
            => m_ghost_reuse_map'[m_entity_keys[e]] = e
     /\ \A k \in Keys :
          m_ghost_reuse_map[k] # 0
            => LET o == m_ghost_reuse_map[k]
               IN /\ ~is_valid(Mesh, o)
                  /\ o \notin SeqSet(m_deleted_entities)
                  /\ o \notin SeqSet(m_deleted_entities_current_modification_cycle)
                  /\ (ret'.op \notin {"ghost_entities_and_fields", "destroy_entity",
                                     "internal_modification_end_for_change_ghosting"})
                       => m_ghost_reuse_map'[k] = o
                  /\ (/\ ret'.op = "ghost_entities_and_fields"
                      /\ ret'.res = "created"
                      /\ m_entity_keys'[ret'.ent] = k)
                       => (ret'.ent = o /\ is_valid(Mesh', o))]_vars
\* a ghost has been created at an offset below the last one handed out, with no
\* offset in a free list
C14_Witness ==
  /\ ret.op = "ghost_entities_and_fields" /\ ret.res = "created"
  /\ m_sync_state = MODIFIABLE
  /\ in_receive_ghost(Mesh, ret.ent)
  /\ \E other \in Handles :
       other > ret.ent /\ is_valid(Mesh, other) /\ m_entity_states[other] = Created
  /\ m_deleted_entities = <<>>
  /\ m_deleted_entities_current_modification_cycle = <<>>

\* C15: local offset 0 is the invalid sentinel: no creation path returns it, no
\* entity lives at it, and it is in neither free list (nor, being no entity's offset,
\* in the ghost reuse map).
C15_OffsetZeroReserved ==
  /\ m_size >= 1
  /\ ~is_valid(Mesh, 0) /\ m_entity_keys[0] = InvalidKey
  /\ \A k \in Keys : m_entity_repo[k] # 0 => m_entity_repo[k] \in Handles
  /\ 0 \notin SeqSet(m_deleted_entities)
  /\ 0 \notin SeqSet(m_deleted_entities_current_modification_cycle)
  /\ ret.res \in {"entity", "created", "existing"} => ret.ent # 0
\* declare_entity has returned an entity while an offset waits in the free list and
\* a ghost's offset in the reuse map
C15_Witness ==
  /\ ret = Ret("declare_entity", ret.ent, "entity")
  /\ is_valid(Mesh, ret.ent)
  /\ m_deleted_entities # <<>>
  /\ \E k \in Keys : m_ghost_reuse_map[k] # 0


\* ---------------------------------------------------------- relations (Spec)
RECURSIVE UpwardClosure(_, _)
\* e and every entity reached from it through relations to higher ranks
UpwardClosure(M, e) == {e} \cup UNION {UpwardClosure(M, u) : u \in UpwardOf(M, e)}
MeshAfter == [keys |-> m_entity_keys', parts |-> m_mesh_indexes', st |-> m_entity_states',
              conn |-> m_conn']

\* C18: a declare_relation call that returns and adds no relation (the relation
\* existed) changes no entity state and no part membership.
C18_RedeclareIsNoOp ==
  [][(ret'.op = "declare_relation" /\ ret'.res = "void" /\ m_conn' = m_conn)
       => (m_mesh_indexes' = m_mesh_indexes /\ m_entity_states' = m_entity_states)]_vars

\* the other half of C18: a declare_relation call that adds the relation of e_from to e_to
\* leaves both, and every entity above them, in a state other than Unchanged, and
\* e_to with the parts e_from induces.
C18_NewRelationMarksAndInduces ==
  [][\A e_from \in Handles, e_to \in Handles, o \in Ordinals :
       (/\ ret'.op = "declare_relation" /\ ret'.res = "void"
        /\ m_entity_keys[e_from][1] > m_entity_keys[e_to][1]
        /\ <<e_to, o>> \in m_conn'[e_from] /\ <<e_to, o>> \notin m_conn[e_from])
       => (/\ \A u \in UpwardClosure(MeshAfter, e_to) \cup UpwardClosure(MeshAfter, e_from) :
                m_entity_states'[u] # Unchanged
           /\ get_part_ordinals_to_induce_on_lower_ranks(MeshAfter, e_from)
                \subseteq m_mesh_indexes'[e_to])]_vars

\* ---------------------------------------------------------- SpecInduce
HigherRankRelations(conn, D) ==
  {c \in conn[D] : m_entity_keys[c[1]][1] > m_entity_keys[D][1]}
\* the step destroys the relation of H to D with ordinal o
RelationDestroyed(H, D, o) ==
  /\ ret'.op = "destroy_relation" /\ ret'.res = "true" /\ ret'.ent = D
  /\ m_entity_keys[H][1] > m_entity_keys[D][1]
  /\ <<D, o>> \in m_conn[H] /\ <<D, o>> \notin m_conn'[H]
Unshared(D) == kv.parallel_size < 2 \/ internal_entity_comm_map_shared_empty(D)

\* C17 as stated: when the relation of a higher-rank H to an unshared D is destroyed,
\* an inducible part P of H that D holds stays on D if and only if some higher-rank
\* entity still connected to D is a member of P.
C17_KeptIffAnyHigherRankHolder ==
  [][\A H \in Handles, D \in Handles, o \in Ordinals, P \in InduciblePartsOf :
       (/\ RelationDestroyed(H, D, o)
        /\ Unshared(D)
        /\ P \in m_mesh_indexes[H] /\ P \in m_mesh_indexes[D])
       => (P \in m_mesh_indexes'[D]
             <=> \E c \in HigherRankRelations(m_conn', D) : P \in m_mesh_indexes[c[1]])]_vars

\* C17 amended: when the relation of H, an entity of P's primary entity rank and a
\* member of P, to an unshared D holding P is destroyed, P stays on D if and only if
\* some entity of P's primary entity rank still connected to D is a member of P.
C17_KeptIffPrimaryRankHolder ==
  [][\A H \in Handles, D \in Handles, o \in Ordinals, P \in InduciblePartsOf :
       (/\ RelationDestroyed(H, D, o)
        /\ Unshared(D)
        /\ should_induce(P, m_entity_keys[H][1])
        /\ P \in m_mesh_indexes[H] /\ P \in m_mesh_indexes[D])
       => (P \in m_mesh_indexes'[D]
             <=> \E c \in HigherRankRelations(m_conn', D) :
                   /\ should_induce(P, m_entity_keys[c[1]][1])
                   /\ P \in m_mesh_indexes[c[1]])]_vars

\* a relation to unshared node 1 was destroyed, and the node keeps the block of the
\* element still connected to it while another element of the block is unconnected
C17_Witness ==
  /\ ret = Ret("destroy_relation", 1, "true")
  /\ Unshared(1)
  /\ block_part \in m_mesh_indexes[1]
  /\ \E H \in Handles, K \in Handles :
       /\ H # K
       /\ m_entity_keys[H][1] = ELEM_RANK /\ m_entity_keys[K][1] = ELEM_RANK
       /\ block_part \in m_mesh_indexes[H] /\ block_part \in m_mesh_indexes[K]
       /\ m_conn[H] = {} /\ <<1, 0>> \in m_conn[K]

\* ------------------------------------------------------------ SpecSync
ErrorDetected == \E q \in Procs : kv.detected[q]
AllThrowTogether ==
  /\ ErrorDetected => \A p \in Procs : kv.pc[p] # "done"
  /\ \A p \in Procs, q \in Procs :
       (kv.thrown[p] # "" /\ kv.pc[q] \in {"done", "thrown"}) => kv.thrown[q] = kv.thrown[p]

\* C19: once a process has detected a parallel-consistency error in the modification
\* end, no process finishes the cycle as if it had succeeded, and every process that
\* has thrown or finished has thrown from the same function as the others, whatever
\* the build.
C19_AllThrowTogether == AllThrowTogether

\* C19 for builds without NDEBUG only
C19_DebugBuildAllThrowTogether == ~kv.NDEBUG => AllThrowTogether

\* ------------------------------------------------------------ SpecChild
LeftLoop(p) == kv.pc[p] \in {"break", "done", "thrown"}

\* C20: a process that has left the loop of batch_create_child_nodes has left it
\* together with every other process, after the same number of iterations, and no
\* process is left with a request that is ready and was not communicated.
C20_LoopExitAgreed ==
  \A p \in Procs : LeftLoop(p) =>
    \A q \in Procs :
      /\ LeftLoop(q)
      /\ kv.rounds[q] = kv.rounds[p]
      /\ \A r \in Requests : request_is_ready(q, r) => kv.communicate_request[q][r]

\* every process has returned after three iterations, which one process needed for a
\* request whose parent is the child of its other request, while another process had
\* all its requests ready in the first
C20_Witness ==
  /\ \A p \in Procs : kv.pc[p] = "done" /\ kv.rounds[p] = 3
  /\ \E p \in Procs, r \in Requests : kv.parents[p][r] \in Requests
  /\ \E q \in Procs : \A r \in Requests : kv.parents[q][r] = 0

\* ------------------------------------------------------------ SpecChildId
\* C21: the node a sharer declares for a shared child node request carries the lowest
\* of the ids the sharers proposed.
C21_LowestProposedId ==
  \A p \in kv.sharers :
    kv.pc[p] = "declared" =>
      \A q \in kv.sharers : kv.child[p] <= kv.available_node_id[q]

\* what holds in place of C21: the node carries the id proposed by the sharer of the
\* lowest process rank, on every sharer
C21_IdOfLowestRankedSharer ==
  \A p \in kv.sharers :
    kv.pc[p] = "declared" =>
      \E q \in kv.sharers :
        /\ \A r \in kv.sharers : q <= r
        /\ kv.child[p] = kv.available_node_id[q]
\* ------------------------------------------------------------ SpecIds
\* the ids of the rank that some process holds in a bucket
IdsInBuckets == UNION {kv.bucket_ids[p] : p \in IdProcs}
\* the ids generate_new_ids returned, on all processes together
NewIds == UNION {SeqSet(kv.requestedIds[p]) : p \in IdProcs}
\* the number of ids generate_new_ids returned, on all processes together
NumNewIds == IdsBelow([p \in IdProcs |-> Len(kv.requestedIds[p])], MaxGhostProcs)

SideResolved ==
  \A p \in SideProcs :
    /\ kv.pc[p] = "resolved"
    /\ kv.side_id[p] # 0
    /\ SeqSet(side_nodes(ElemNodes[p], kv.sideOrd[p])) = {2, 3}

\* C23: when the two processes have declared the side on the nodes 2 and 3 and the
\* modification end has resolved it, the side is attached at ordinal 2 on the
\* element {0,1,2,3} and at ordinal 0 on the element {2,3,4,5}, and it has the same
\* id on both processes.
C23_OneSideOneId ==
  SideResolved =>
    /\ kv.sideOrd[0] = 2
    /\ kv.sideOrd[1] = 0
    /\ kv.side_id[0] = kv.side_id[1]
\* both processes declared the side themselves, without the graph, under the
\* different ids the formula gives them
C23_Witness ==
  /\ SideResolved
  /\ ~kv.graph
  /\ \A p \in SideProcs : kv.sentity[p].local_key = side_id_formula(kv.elem_id[p], kv.sideOrd[p])
  /\ kv.sentity[0].local_key # kv.sentity[1].local_key

\* ------------------------------------------------------------ SpecGhosting
\* the aura of the mesh data W: the aura comm entries of every process and the
\* entities every process holds
AuraOf(W) == [p \in GProcs |-> <<{c \in W.comm[p] : c[2] = "AURA"}, W.valid[p]>>]

\* C24: a call of internal_regenerate_aura that follows a call of it, with no
\* mutation between the two, leaves the aura as it was: the same entities sent to
\* the same processes and the same receive-ghosts on every process.
C24_RegenerateAuraIdempotent ==
  [][(kv.regens >= 1 /\ kv'.regens = kv.regens + 1)
       => /\ AuraOf([valid |-> kv'.valid, rel |-> kv'.rel, comm |-> kv'.comm]) = AuraOf(World)
          /\ kv'.rel = kv.rel]_vars
\* the second of two calls has returned and the aura is not empty
C24_Witness ==
  /\ kv.regens = 2
  /\ \E p \in GProcs : \E k \in GhostElems : in_send_ghost(World, p, "AURA", k, other_proc(p))
  /\ \E p \in GProcs : \E k \in GhostNodes : in_receive_ghost_of(World, p, "AURA", k)


\* the send and receive views of the ghosting `ghost` agree: q holds k as a
\* receive-ghost from p exactly when p has k send-ghosted to q
SymmetricViews(ghost) ==
  \A p \in GProcs : \A k \in GhostKeys :
    in_send_ghost(World, p, ghost, k, other_proc(p))
      <=> (k \in kv.valid[other_proc(p)] /\ in_receive_ghost_of(World, other_proc(p), ghost, k))
\* C25 as stated: whenever change_ghosting has returned, the send and receive views
\* of the custom ghosting are symmetric.
C25_SymmetricAfterChangeGhosting ==
  (ret.op = "change_ghosting" /\ ret.res = "void") => SymmetricViews("CUSTOM")

\* every process has the relations of the owner of the element between the
\* entities it holds
RelationsAgree ==
  \A p \in GProcs : \A e \in GhostElems \cap kv.valid[p] :
    {r \in kv.rel[p] : r[1] = e} = {r \in kv.rel[kv.owner[e]] : r[1] = e /\ r[2] \in kv.valid[p]}
\* a call of change_ghosting on processes whose copies of the element have the
\* relations of its owner keeps the views of the custom ghosting symmetric
C25_SymmetryKeptWhileRelationsAgree ==
  [][(ret'.op = "change_ghosting" /\ RelationsAgree /\ SymmetricViews("CUSTOM"))
       => SymmetricViews("CUSTOM")']_vars

\* ------------------------------------------------------------ SpecUnpack
\* C26: the entities are unpacked in entity-rank order, lower ranks first, and
\* every relation unpacked with an entity refers to a lower-rank entity that the
\* receiver holds at that moment.
C26_LowerRanksUnpackedFirst ==
  /\ \A i, j \in DOMAIN kv.order : i < j => kv.order[i][1] <= kv.order[j][1]
  /\ kv.missing = {}
\* all buffers are unpacked: the two nodes, the face and the element arrived, each
\* from the process that owns it
C26_Witness ==
  /\ kv.rank = rank_count
  /\ \E i, j \in DOMAIN kv.order :
       /\ i < j
       /\ kv.order[i][1] = NODE_RANK
       /\ kv.order[j] = <<ELEM_RANK, 1>>
       /\ kv.order[i] \in PackedRelations(kv.order[j])
  /\ Len(kv.order) = Cardinality(UnpackKeys)


\* ---------------------------------------------------------------- SpecShare
\* the nodes of process p in globally_shared_part are those with a SHARED comm entry
SharedPartIffSharedComm(p) ==
  \A n \in kv.valid[p] : (globally_shared_part \in kv.parts[p][n]) <=> (kv.comm[p][n] # {})
EndedEntityCreation ==
  ret.op = "modification_end_for_entity_creation" /\ ret.res = "true"

\* C27: after every modification end, an entity is a member of globally_shared_part
\* if and only if it has at least one comm entry of the SHARED ghosting.
C27_SharedPartIffSharedCommAfterEnd ==
  EndedEntityCreation => \A p \in GProcs : SharedPartIffSharedComm(p)

\* C27, the ends that resolve the node rank: after a modification end whose rank
\* vector holds NODE_RANK, membership in globally_shared_part and the SHARED comm
\* entries agree on every process.
C27_SharedPartIffSharedCommAfterNodeEnd ==
  (EndedEntityCreation /\ NODE_RANK \in kv.ranks) => \A p \in GProcs : SharedPartIffSharedComm(p)
\* a node shared by both processes after such an end
C27_NodeEndWitness ==
  /\ EndedEntityCreation
  /\ NODE_RANK \in kv.ranks
  /\ \E n \in ShareNodes : \A p \in GProcs : globally_shared_part \in kv.parts[p][n]


\* ------------------------------------------------------------------- closure
\* the valid entities of rank above node of the current mesh
EntitiesAboveNode ==
  {e \in 1 .. (m_size - 1) : is_valid(Mesh, e) /\ entity_rank(Mesh, e) > NODE_RANK}
HasNodeRelation(e) == \E c \in m_conn[e] : entity_rank(Mesh, c[1]) = NODE_RANK
EndedModification ==
  ret.op \in ModificationEnds /\ ret.res \in {"true", "void"}

\* C28 as stated: after every modification end, every non-deleted entity of rank
\* above node has at least one relation to a node.
C28_ClosureAfterEveryEnd ==
  EndedModification => \A e \in EntitiesAboveNode : HasNodeRelation(e)
\* C28, amended: a modification end for entity creation, change entity owner or
\* skin mesh of a build with ThrowAssertMsg compiled in returns true only when
\* every non-deleted entity of rank above node has a relation to a node, and
\* throws, leaving the mesh as it was, when one has none.
C28_ClosureAfterCheckedEnd ==
  [][(ret'.op \in GuardedEnds /\ GuardedModificationEnd(ret'.op, TRUE)) =>
         /\ ret'.res = "true" =>
              \A e \in 1 .. (m_size' - 1) :
                (m_mesh_indexes'[e] # {} /\ m_entity_keys'[e][1] > NODE_RANK)
                  => \E c \in m_conn'[e] : m_entity_keys'[c[1]][1] = NODE_RANK
         /\ (~in_synchronized_state /\ \E e \in EntitiesAboveNode : ~HasNodeRelation(e))
              => (ret'.res = "throw" /\ UNCHANGED meshvars)]_vars
\* a guarded end has returned true on a mesh that holds an entity above node rank
C28_Witness ==
  /\ ret.op \in GuardedEnds
  /\ ret.res = "true"
  /\ EntitiesAboveNode # {}
  /\ \A e \in EntitiesAboveNode : HasNodeRelation(e)


\* ------------------------------------------------------------- SpecCommList
\* C29: the entity comm list is sorted by EntityKey and holds no key twice after
\* every operation that adds shared or ghosted entities to it and after every
\* modification end.
C29_CommListSortedAndUnique ==
  \A i \in 1 .. (Len(kv.list) - 1) : TupleLess(kv.list[i], kv.list[i + 1])
\* ghost_entities_and_fields has pushed a key twice (an entity sent to two
\* processes) and a key below a key already in the list
C29_Witness ==
  /\ ret.op = "ghost_entities_and_fields"
  /\ Len(kv.list) >= 3
  /\ \E k \in CommKeys : {<<CUSTOM_ORDINAL, 1>>, <<CUSTOM_ORDINAL, 2>>} \subseteq kv.comm[k]
  /\ \E k \in CommKeys : kv.comm[k] = {<<SHARED_ORDINAL, 1>>}


C31_RegistryOrdinals ==
  /\ Len(kv.m_ghosting) >= 2
  /\ kv.m_ghosting[1] = Ghosting(0, SHARED_ORDINAL)
  /\ kv.m_ghosting[2] = Ghosting(1, AURA_ORDINAL)
  /\ \A i \in 1 .. Len(kv.m_ghosting) : kv.m_ghosting[i].ordinal = i - 1
  /\ \A i \in 3 .. Len(kv.m_ghosting) : kv.m_ghosting[i].name >= 2
  /\ (ret.op = "create_ghosting" /\ ret.res = "created")
       => (ret.ent >= 2 /\ ret.ent = Len(kv.m_ghosting) - 1)
\* destroy_all_ghosting has run on a registry of three custom ghostings created in
\* an order other than that of their names
C31_Witness ==
  /\ ret = Ret("destroy_all_ghosting", 0, "void")
  /\ Len(kv.m_ghosting) = 2 + MaxCustomGhostings
  /\ kv.m_ghosting[3].name > kv.m_ghosting[4].name


\* ----------------------------------------------------------- SpecMembership
\* C32: after a modification end every process that holds a shared entity has the
\* owner's membership in every parallel-consistent part other than the ownership,
\* sharing and ghosting parts, and the owner's induced parts are the union of what
\* the holders induce locally.
C32_SharersAdoptOwnerParts ==
  ret.op = "modification_end" =>
    /\ \A p \in kv.holders :
         kv.parts[p] \cap MemberParts = kv.parts[kv.owner] \cap MemberParts
    /\ kv.parts[kv.owner] \cap InducedParts = UNION {kv.induced[q] : q \in kv.holders}
\* an end after which the owner holds a block that only a sharer induces, beside a
\* part of node rank, while a sharer also holds a ghosting part
C32_Witness ==
  /\ ret.op = "modification_end"
  /\ kv.induced[kv.owner] = {}
  /\ kv.parts[kv.owner] \cap InducedParts = {block_a}
  /\ nodeset_part \in kv.parts[kv.owner]
  /\ \E p \in kv.holders : ghost_part \in kv.parts[p]


\* the upward closure of the marking: no Unchanged entity is upward-connected to a
\* valid entity that is not Unchanged
UpwardMarked ==
  \A e \in 1 .. (m_size - 1) :
    (is_valid(Mesh, e) /\ m_entity_states[e] # Unchanged)
      => \A u \in UpwardOf(Mesh, e) : m_entity_states[u] # Unchanged

\* C33 as stated: at every point of a modification cycle, the state exchange of
\* modification_end included, no Unchanged entity is upward-connected to a valid
\* entity that is not Unchanged.
C33_UpwardMarkedAlways == UpwardMarked

\* C33 (amended): relation and part changes propagate the Modified state upward, so
\* no Unchanged entity is upward-connected to a valid entity that is not Unchanged
\* in any state outside modification_end.
C33_UpwardMarkedOutsideModificationEnd == ~InModificationEnd => UpwardMarked

\* C33 witness: a part change of the node has marked the node and, through the
\* face, the element above it, both Unchanged before, as Modified.
C33_Witness ==
  /\ ret.op = "change_entity_parts"
  /\ <<2, 0>> \in m_conn[1] /\ <<3, 0>> \in m_conn[2] /\ <<3, 0>> \notin m_conn[1]
  /\ m_entity_states[1] = Modified /\ m_entity_states[3] = Modified
  /\ block_part \in m_mesh_indexes[1] /\ block_part \notin m_mesh_indexes[3]


\* some process of the call recorded in r passed a Ghosting that is not a custom
\* ghosting or an add_send entity it does not own
BadChangeGhostingInputs(r) ==
  \E p \in GProcs : \/ r.ent.ghosts[p] <= AURA_ORDINAL
                    \/ \E k \in r.ent.add_send[p] : kv.owner[k] # p

\* C34: change_ghosting throws on every process, and changes no process's comm map
\* and no process's set of entities, when some process passes a Ghosting whose
\* ordinal is not above the aura's or an add_send entity it does not own; it is
\* accepted when no process does.
C34_ChangeGhostingInputsChecked ==
  [][ret'.op = "change_ghosting"
       => IF BadChangeGhostingInputs(ret')
          THEN ret'.res = "throw" /\ kv'.comm = kv.comm /\ kv'.valid = kv.valid
                                  /\ kv'.rel = kv.rel
          ELSE ret'.res = "void"]_vars

\* C34 witness: process 1 alone passed the aura and process 0, with the custom
\* ghosting, an element it owns and does not yet send; the call threw.
C34_Witness ==
  /\ ret.op = "change_ghosting" /\ ret.res = "throw"
  /\ ret.ent.ghosts = [p \in GProcs |-> IF p = 0 THEN CUSTOM_ORDINAL ELSE AURA_ORDINAL]
  /\ ret.ent.add_send[0] = {<<ELEM_RANK, 1>>}
  /\ kv.owner[<<ELEM_RANK, 1>>] = 0
  /\ \A c \in kv.comm[0] : c[2] # "CUSTOM"


BatchOps == {"batch_change_entity_parts", "batch_add_to_ghosting"}

\* C35 as stated: a batch call made while the mesh is Modifiable raises an error,
\* whatever its input, and a batch call made while the mesh is Synchronized leaves
\* it Synchronized.
C35_BatchCallsAlwaysThrowInOuterScope ==
  [][ret'.op \in BatchOps
       => /\ m_sync_state = MODIFIABLE => ret'.res = "throw"
          /\ m_sync_state = SYNCHRONIZED => m_sync_state' = SYNCHRONIZED]_vars

\* some process of the call recorded in r has an add_send entity that it does not
\* yet send to the other process in the custom ghosting
NeedsNewGhosts(r) ==
  \E p \in GProcs : \E k \in r.ent.add_send[p] : <<k, "CUSTOM", other_proc(p)>> \notin kv.comm[p]

\* C35 (amended): while the mesh is Modifiable batch_change_entity_parts raises an
\* error for every input, and batch_add_to_ghosting raises one exactly when its input
\* is rejected or some process has an entity to add; with nothing to add on any
\* process it returns without an error.  Neither changes anything then, and both
\* leave a Synchronized mesh Synchronized.
C35_BatchCallsInOuterScope ==
  [][ret'.op \in BatchOps
       => /\ m_sync_state = SYNCHRONIZED => m_sync_state' = SYNCHRONIZED
          /\ m_sync_state = MODIFIABLE =>
               /\ UNCHANGED <<meshvars, kv>>
               /\ IF ret'.op = "batch_change_entity_parts"
                  THEN ret'.res = "throw"
                  ELSE ret'.res = "throw" <=>
                         (BadChangeGhostingInputs([ent |-> [ghosts |-> [p \in GProcs |-> ret'.ent.ghosts],
                                                             add_send |-> ret'.ent.add_send]])
                          \/ NeedsNewGhosts(ret'))]_vars

\* C35 witness: inside a modification cycle batch_add_to_ghosting was given an
\* element that process 0 owns and does not yet send, and threw.
C35_Witness ==
  /\ ret.op = "batch_add_to_ghosting" /\ ret.res = "throw"
  /\ m_sync_state = MODIFIABLE
  /\ ret.ent.ghosts = CUSTOM_ORDINAL
  /\ ret.ent.add_send[0] = {<<ELEM_RANK, 1>>}
  /\ \A c \in kv.comm[0] : c[2] # "CUSTOM"


NoGhostWithEmptyCommMap(W) ==
  \A p \in GProcs : \A k \in W.valid[p] :
    kv.owner[k] # p => \E c \in W.comm[p] : c[1] = k

ChildDeclared(p, s) == kv.child[p][s] # 0
\* the processes other than p that have declared the child of a request with the
\* parents of the request in slot s of p
OtherHolders(p, s) ==
  {q \in Procs \ {p} : \E t \in Requests : ChildDeclared(q, t) /\ m_parents(q, t) = m_parents(p, s)}

\* C37: the processes that hold a request with the same parent nodes declare its
\* child node with the same id, in the same round, and each has registered node
\* sharing with the others; once every process has left the loop, each has
\* registered node sharing with exactly the other processes that hold the request.
C37_SharedRequestOneIdMutualSharing ==
  /\ \A p, q \in Procs : \A s, t \in Requests :
       (p # q /\ ChildDeclared(p, s) /\ ChildDeclared(q, t) /\ m_parents(p, s) = m_parents(q, t))
         => /\ kv.child[p][s] = kv.child[q][t]
            /\ q \in kv.sharing[p][s]
            /\ kv.round[p][s] = kv.round[q][t]
  /\ (\A p \in Procs : kv.pc[p] \in {"break", "done", "thrown"})
       => \A p \in Procs : \A s \in Requests :
            ChildDeclared(p, s) => kv.sharing[p][s] = OtherHolders(p, s)

\* C37 witness: processes 1 and 2, but not process 0, hold the request whose parent
\* is the child of the request on nodes 1 and 2 that all three hold; in the second
\* round they declared its child with the id process 1 suggested and registered
\* each other.
C37_Witness ==
  /\ \A p \in Procs : kv.pc[p] = "done"
  /\ \E s, t \in Requests :
       /\ kv.kind[1][s] = "derived" /\ kv.kind[2][t] = "derived"
       /\ kv.round[1][s] = 2 /\ kv.round[2][t] = 2
       /\ kv.child[1][s] = available_node_ids(1, s) /\ kv.child[2][t] = kv.child[1][s]
       /\ kv.sharing[1][s] = {2} /\ kv.sharing[2][t] = {1}
  /\ \E s \in Requests : kv.kind[0][s] = "AB" /\ kv.sharing[0][s] = {1, 2}
  /\ \A s \in Requests : kv.kind[0][s] # "derived"


\* ------------------------------------------------------------ SpecChildFair
\* the requests marked in communicate_request, over all processes
CommunicatedRequests == {x \in Procs \X Requests : kv.communicate_request[x[1]][x[2]]}
\* request r of process p can never be ready: a parent is never valid, or is the
\* child of a request that can never be ready
RECURSIVE NeverReady(_, _, _)
NeverReady(p, r, n) ==
  IF n = 0 THEN TRUE
  ELSE LET parent == kv.parents[p][r]
       IN IF parent = 0 THEN FALSE
          ELSE IF parent < 0 THEN TRUE
          ELSE NeverReady(p, parent, n - 1)
HasInvalidRequest(p) == \E r \in Requests : NeverReady(p, r, MaxRequests)

\* C38: batch_create_child_nodes terminates on every process: each round begun
\* after the first follows a round that marked a request not communicated before,
\* so a process begins at most one round more than there are requests; every
\* process leaves the loop and returns or throws; and a process with a request
\* whose parents never become valid ends in the error.
C38_BatchCreateChildNodesTerminates ==
  /\ [](\A p \in Procs : /\ kv.rounds[p] <= Cardinality(CommunicatedRequests) + 1
                         /\ kv.rounds[p] <= NumProcs * MaxRequests + 1)
  /\ <>(\A p \in Procs : kv.pc[p] \in {"done", "thrown"})
  /\ \A p \in Procs : (HasInvalidRequest(p) ~> kv.pc[p] = "thrown")
  /\ \A p \in Procs : (~HasInvalidRequest(p) ~> kv.pc[p] = "done")

\* C38 witness: process 0 resolved a chain of requests in as many rounds as it has
\* requests and returned after one round more, while process 1, with a request whose
\* parent is never valid, ended in the error.
C38_Witness ==
  /\ kv.rounds[0] = MaxRequests + 1 /\ kv.pc[0] = "done"
  /\ \A r \in Requests : kv.child[0][r]
  /\ \E r \in Requests : kv.parents[1][r] = -1
  /\ kv.pc[1] = "thrown"


\* ------------------------------------------------------------ SpecDelete
\* the loop was left by the break: the last iteration found no node below the
\* threshold on any process
StoppedByBreak == kv.numNodesDeletedWithSmallVolume = 0

\* C39: the function performs at most 10 deletion iterations; it reports success
\* exactly when it stopped because an iteration found no node below the threshold
\* on any process, and it reports terminating at max iterations only when the last
\* allowed iteration still deleted nodes.
C39_MessageTellsWhyTheLoopStopped ==
  /\ kv.performed <= maxIterations
  /\ kv.pc = "done" =>
       /\ kv.message = "Successfully deleted all nodes" <=> StoppedByBreak
       /\ kv.message = "Terminating after performing max iterations"
            => (kv.performed = maxIterations /\ ~StoppedByBreak)


\* ------------------------------------------------------------ SpecGhost (offsets)
\* the local offsets the three containers of unused offsets hold, one entry for
\* each place an offset is held in
HeldOffsets ==
  {<<"deleted", i, m_deleted_entities[i]>> : i \in DOMAIN m_deleted_entities}
  \cup {<<"current", i, m_deleted_entities_current_modification_cycle[i]>> :
          i \in DOMAIN m_deleted_entities_current_modification_cycle}
  \cup {<<"reuse", k, m_ghost_reuse_map[k]>> : k \in {x \in Keys : m_ghost_reuse_map[x] # 0}}
\* the keys the entity repository holds an entity for
ValidKeys == {k \in Keys : m_entity_repo[k] # 0}

\* C40: the local offsets of the valid entities are pairwise distinct, each valid
\* entity's offset holds its key and a bucket, no offset of a valid entity is in
\* m_deleted_entities, m_deleted_entities_current_modification_cycle or
\* m_ghost_reuse_map, and no offset is held twice across these three containers.
C40_OffsetsHeldOnce ==
  /\ \A k1, k2 \in ValidKeys : k1 # k2 => m_entity_repo[k1] # m_entity_repo[k2]
  /\ \A k \in ValidKeys : /\ m_entity_keys[m_entity_repo[k]] = k
                          /\ is_valid(Mesh, m_entity_repo[k])
  /\ \A h \in HeldOffsets : /\ h[3] \in 1 .. (m_size - 1)
                            /\ ~is_valid(Mesh, h[3])
                            /\ \A k \in ValidKeys : m_entity_repo[k] # h[3]
  /\ \A h1, h2 \in HeldOffsets : h1 # h2 => h1[3] # h2[3]

\* C40 witness: a destroyed ghost left its offset in m_ghost_reuse_map, an owned
\* entity destroyed in this cycle left its offset in the current-cycle list, and
\* the receipt of a ghost has just created a valid entity at a third offset.
C40_Witness ==
  /\ \E k \in Keys : m_ghost_reuse_map[k] # 0
  /\ m_deleted_entities_current_modification_cycle # <<>>
  /\ ValidKeys # {}
  /\ ret.op = "ghost_entities_and_fields" /\ ret.res = "created"

====
